---- MODULE Spec2Model ----
(***************************************************************************)
(* A model of the headless CMS backend: the four tables of schema.ts, the  *)
(* credential and token helpers, the two middleware steps, the route table *)
(* and the auth, user, post and category controllers.  Every controller is *)
(* a sequence of steps, one per awaited database statement, so that the    *)
(* requests of several callers can interleave exactly where the code       *)
(* awaits.                                                                 *)
(***************************************************************************)
EXTENDS Naturals, Integers, Sequences, FiniteSets, TLC

VARIABLES
    users,            \* table users
    posts,            \* table posts
    categories,       \* table categories
    postCategories,   \* table post_categories
    nextUserId,       \* AUTOINCREMENT counters of the three tables
    nextPostId,
    nextCategoryId,
    foreignKeys,      \* does this SQLite build enforce FOREIGN KEY clauses
    pc,               \* per request slot: the statement the handler awaits
    ctx,              \* per request slot: the request and the handler's locals
    resp,             \* per request slot: the response, once pc = "done"
    pre               \* per request slot: the tables when the request arrived

vars == <<users, posts, categories, postCategories, nextUserId, nextPostId,
          nextCategoryId, foreignKeys, pc, ctx, resp, pre>>

tables == <<users, posts, categories, postCategories>>
counters == <<nextUserId, nextPostId, nextCategoryId>>

(***************************************************************************)
(* Bounds of the model.                                                    *)
(***************************************************************************)
MaxPosts == 2          \* posts created in Spec, SpecPosts and SpecRace
MaxCategories == 2     \* categories created in SpecPosts and SpecCategories
ListMaxPosts == 3      \* posts created in SpecList
ListMaxCategories == 3 \* categories created in SpecList
MaxSlugLen == 3        \* length of the strings validateSlug is applied to in SpecSlug

Procs == {1, 2}

(***************************************************************************)
(* Optional values: <<>> is undefined / null, <<v>> is v.                  *)
(***************************************************************************)
None == <<>>
Some(v) == <<v>>
Has(o) == o # <<>>
Val(o) == o[1]

Range(s) == {s[i] : i \in DOMAIN s}

Min(a, b) == IF a < b THEN a ELSE b
Max(a, b) == IF a > b THEN a ELSE b

(***************************************************************************)
(* utils/validation.ts and the zod schemas.  A slug is the sequence of its *)
(* characters, other strings are strings.                                  *)
(***************************************************************************)
SlugChars ==
    {"a", "b", "c", "d", "e", "f", "g", "h", "i", "j", "k", "l", "m",
     "n", "o", "p", "q", "r", "s", "t", "u", "v", "w", "x", "y", "z",
     "0", "1", "2", "3", "4", "5", "6", "7", "8", "9", "-"}

\* /^[a-z0-9-]+$/i
validateSlug_IgnoreCase(slug) ==
    Len(slug) >= 1 /\ \A i \in 1..Len(slug) : slug[i] \in SlugChars \cup {"A", "Z"}

\* /^[a-z0-9-]+$/
validateSlug(slug) == Len(slug) >= 1 /\ \A i \in 1..Len(slug) : slug[i] \in SlugChars

MinUsernameLen == 3
MaxUsernameLen == 50
MinPasswordLen == 6
MaxTitleLen == 200
MaxNameLen == 100
MaxPageLimit == 100

userRoleSchema == {"admin", "editor"}
postStatusSchema == {"draft", "published"}
postContentTypeSchema == {"markdown", "html"}

\* z.string().email(): the addresses of the model that the library accepts
WellFormedEmails == {"a@x.org", "b@x.org"}

\* insertUserSchema.parse without the minimum length of the password
insertUserSchema_AnyPassword(body) ==
    LET issues ==
            (IF Has(body.username) /\ Len(Val(body.username)) >= MinUsernameLen
                                   /\ Len(Val(body.username)) <= MaxUsernameLen
             THEN <<>> ELSE <<"username">>)
         \o (IF Has(body.email) /\ Val(body.email) \in WellFormedEmails
             THEN <<>> ELSE <<"email">>)
         \o (IF Has(body.password) THEN <<>> ELSE <<"password">>)
         \o (IF ~Has(body.role) \/ Val(body.role) \in userRoleSchema
             THEN <<>> ELSE <<"role">>)
    IN  [issues |-> issues,
         data |-> IF issues # <<>> THEN None
                  ELSE Some([username |-> Val(body.username),
                             email |-> Val(body.email),
                             password |-> Val(body.password),
                             role |-> IF Has(body.role) THEN Val(body.role)
                                      ELSE "editor"])]

\* insertUserSchema.parse: the list of issues and the value with defaults
insertUserSchema(body) ==
    LET issues ==
            (IF Has(body.username) /\ Len(Val(body.username)) >= MinUsernameLen
                                   /\ Len(Val(body.username)) <= MaxUsernameLen
             THEN <<>> ELSE <<"username">>)
         \o (IF Has(body.email) /\ Val(body.email) \in WellFormedEmails
             THEN <<>> ELSE <<"email">>)
         \o (IF Has(body.password) /\ Len(Val(body.password)) >= MinPasswordLen
             THEN <<>> ELSE <<"password">>)
         \o (IF ~Has(body.role) \/ Val(body.role) \in userRoleSchema
             THEN <<>> ELSE <<"role">>)
    IN  [issues |-> issues,
         data |-> IF issues # <<>> THEN None
                  ELSE Some([username |-> Val(body.username),
                             email |-> Val(body.email),
                             password |-> Val(body.password),
                             role |-> IF Has(body.role) THEN Val(body.role)
                                      ELSE "editor"])]

\* loginSchema.parse
loginSchema(body) ==
    (IF Has(body.username) /\ Len(Val(body.username)) >= 1 THEN <<>> ELSE <<"username">>)
    \o (IF Has(body.password) /\ Len(Val(body.password)) >= 1 THEN <<>> ELSE <<"password">>)

\* changePasswordSchema.parse
changePasswordSchema(body) ==
    (IF Has(body.currentPassword) /\ Len(Val(body.currentPassword)) >= 1
     THEN <<>> ELSE <<"currentPassword">>)
    \o (IF Has(body.newPassword) /\ Len(Val(body.newPassword)) >= MinPasswordLen
        THEN <<>> ELSE <<"newPassword">>)

\* the issues of the fields that insertPostSchema and its partial() share
PostFieldIssues(body) ==
       (IF ~Has(body.title) \/ (Len(Val(body.title)) >= 1 /\ Len(Val(body.title)) <= MaxTitleLen)
        THEN <<>> ELSE <<"title">>)
    \o (IF ~Has(body.slug) \/ validateSlug(Val(body.slug)) THEN <<>> ELSE <<"slug">>)
    \o (IF ~Has(body.contentType) \/ Val(body.contentType) \in postContentTypeSchema
        THEN <<>> ELSE <<"contentType">>)
    \o (IF ~Has(body.status) \/ Val(body.status) \in postStatusSchema
        THEN <<>> ELSE <<"status">>)

\* insertPostSchema.parse: title and slug are required, contentType and
\* status have defaults; unknown keys (categoryIds, authorId, id) are stripped
insertPostSchema(body) ==
    LET issues ==
            (IF Has(body.title) THEN <<>> ELSE <<"title">>)
         \o (IF Has(body.slug) THEN <<>> ELSE <<"slug">>)
         \o PostFieldIssues(body)
    IN  [issues |-> issues,
         data |-> IF issues # <<>> THEN None
                  ELSE Some([title |-> body.title,
                             slug |-> body.slug,
                             contentType |-> IF Has(body.contentType) THEN body.contentType
                                             ELSE Some("markdown"),
                             status |-> IF Has(body.status) THEN body.status
                                        ELSE Some("draft")])]

\* postUpdateSchema as a z.object that keeps the keys it does not know
postUpdateSchema_Passthrough(body) ==
    LET issues == PostFieldIssues(body)
    IN  [issues |-> issues,
         data |-> IF issues # <<>> THEN None
                  ELSE Some([title |-> body.title,
                             slug |-> body.slug,
                             contentType |-> body.contentType,
                             status |-> body.status,
                             authorId |-> body.authorId,
                             id |-> body.id])]

\* insertPostSchema.partial().parse: an absent field stays undefined, and a
\* z.object strips the keys it does not know
postUpdateSchema(body) ==
    LET issues == PostFieldIssues(body)
    IN  [issues |-> issues,
         data |-> IF issues # <<>> THEN None
                  ELSE Some([title |-> body.title,
                             slug |-> body.slug,
                             contentType |-> body.contentType,
                             status |-> body.status])]

CategoryFieldIssues(body) ==
       (IF ~Has(body.name) \/ (Len(Val(body.name)) >= 1 /\ Len(Val(body.name)) <= MaxNameLen)
        THEN <<>> ELSE <<"name">>)
    \o (IF ~Has(body.slug) \/ validateSlug(Val(body.slug)) THEN <<>> ELSE <<"slug">>)

\* insertCategorySchema.parse
insertCategorySchema(body) ==
    LET issues ==
            (IF Has(body.name) THEN <<>> ELSE <<"name">>)
         \o (IF Has(body.slug) THEN <<>> ELSE <<"slug">>)
         \o CategoryFieldIssues(body)
    IN  [issues |-> issues,
         data |-> IF issues # <<>> THEN None
                  ELSE Some([name |-> body.name, slug |-> body.slug])]

\* insertCategorySchema.partial().parse
categoryUpdateSchema(body) ==
    LET issues == CategoryFieldIssues(body)
    IN  [issues |-> issues,
         data |-> IF issues # <<>> THEN None
                  ELSE Some([name |-> body.name, slug |-> body.slug])]

(***************************************************************************)
(* utils/auth.ts.  A hash is tagged and salted, a token carries its        *)
(* payload, the key that signed it and whether it is live (not expired)    *)
(* and well formed.                                                        *)
(***************************************************************************)
JWT_SECRET == "your-secret-key"

hashPassword(password) == [alg |-> "bcrypt", cost |-> 10, of |-> password]

verifyPassword(password, hashedPassword) == hashedPassword.of = password

\* days a token lives: JWT_EXPIRES_IN = "7d"
JWT_EXPIRES_IN == 7

\* jwt.sign(payload, secret, {expiresIn}): the payload with the registered
\* claims iat (day 0, the day of issue) and exp, and a signature that binds
\* the key to that payload
jwtSign(payload, secret, expiresIn) ==
    LET body == [userId |-> payload.userId, username |-> payload.username,
                 email |-> payload.email, role |-> payload.role,
                 iat |-> 0, exp |-> expiresIn]
    IN  [payload |-> body, key |-> secret, signed |-> body, live |-> TRUE,
         wellFormed |-> TRUE]

\* jwt.verify(token, secret): throws on a malformed token, on a signature
\* that is not the secret's over the payload and on an expired token, and
\* returns the decoded payload otherwise
jwtVerify(token, secret) ==
    IF ~token.wellFormed THEN [error |-> Some("jwt malformed"), value |-> None]
    ELSE IF token.key # secret \/ token.signed # token.payload
    THEN [error |-> Some("invalid signature"), value |-> None]
    ELSE IF ~token.live THEN [error |-> Some("jwt expired"), value |-> None]
    ELSE [error |-> None, value |-> Some(token.payload)]

generateToken(payload) == jwtSign(payload, JWT_SECRET, JWT_EXPIRES_IN)

\* verifyToken that decodes without verifying
verifyToken_Decode(token) == Some(token.payload)

\* try { return jwt.verify(token, JWT_SECRET) } catch { return null }
verifyToken(token) ==
    LET r == jwtVerify(token, JWT_SECRET)
    IN  IF Has(r.error) THEN None ELSE r.value

\* authHeader is [present, prefix, rest]; rest is <<>> for the empty string
NoHeader == [present |-> FALSE, prefix |-> "", rest |-> None]

\* extractTokenFromHeader that takes the token of any scheme
extractTokenFromHeader_AnyScheme(authHeader) ==
    IF ~authHeader.present THEN None
    ELSE authHeader.rest

extractTokenFromHeader(authHeader) ==
    IF ~authHeader.present \/ authHeader.prefix # "Bearer " THEN None
    ELSE authHeader.rest

(***************************************************************************)
(* db/schema.ts: the statements the controllers issue, with the UNIQUE,    *)
(* PRIMARY KEY and FOREIGN KEY clauses of the tables.  A statement yields  *)
(* the error it throws, if any, and the table it leaves.                   *)
(***************************************************************************)
Tables == [users |-> users, posts |-> posts, categories |-> categories,
           postCategories |-> postCategories]

NoTables == [users |-> {}, posts |-> {}, categories |-> {}, postCategories |-> {}]

Ok(rows) == [error |-> None, rows |-> rows]
Throw(message, rows) == [error |-> Some(message), rows |-> rows]

\* INSERT INTO users with users.email not UNIQUE
InsertUser_EmailNotUnique(row) ==
    IF \E u \in users : u.username = row.username
    THEN Throw("UNIQUE constraint failed: users.username", users)
    ELSE Ok(users \cup {row})

\* db.insert(users).values(row): users.username and users.email are unique
InsertUser(row) ==
    IF \E u \in users : u.username = row.username
    THEN Throw("UNIQUE constraint failed: users.username", users)
    ELSE IF \E u \in users : u.email = row.email
    THEN Throw("UNIQUE constraint failed: users.email", users)
    ELSE Ok(users \cup {row})

\* db.insert(posts).values(row): posts.slug is unique, author_id references users
InsertPost(row) ==
    IF \E q \in posts : q.slug = row.slug
    THEN Throw("UNIQUE constraint failed: posts.slug", posts)
    ELSE IF foreignKeys /\ ~\E u \in users : u.id = row.authorId
    THEN Throw("FOREIGN KEY constraint failed", posts)
    ELSE Ok(posts \cup {row})

\* db.insert(categories).values(row): categories.name and categories.slug are unique
InsertCategory(row) ==
    IF \E c \in categories : c.name = row.name
    THEN Throw("UNIQUE constraint failed: categories.name", categories)
    ELSE IF \E c \in categories : c.slug = row.slug
    THEN Throw("UNIQUE constraint failed: categories.slug", categories)
    ELSE Ok(categories \cup {row})

\* db.insert(postCategories).values(ids.map(...)): one statement, all rows or
\* none; (post_id, category_id) is the primary key, both columns are references
InsertPostCategories(postId, ids) ==
    LET rows == {[postId |-> postId, categoryId |-> ids[i]] : i \in DOMAIN ids}
    IN  IF Cardinality(rows) # Len(ids) \/ rows \cap postCategories # {}
        THEN Throw("UNIQUE constraint failed: post_categories.post_id, post_categories.category_id",
                   postCategories)
        ELSE IF foreignKeys /\ (   ~(\E q \in posts : q.id = postId)
                                \/ \E i \in DOMAIN ids : ~\E c \in categories : c.id = ids[i])
        THEN Throw("FOREIGN KEY constraint failed", postCategories)
        ELSE Ok(postCategories \cup rows)

\* .set({...data}): every key of data that is a column and is not undefined
\* is written, every other column keeps its value
SetPost(row, data) ==
    [c \in DOMAIN row |->
        IF c \in DOMAIN data /\ Has(data[c]) THEN Val(data[c]) ELSE row[c]]

\* db.update(posts).set(data).where(eq(posts.id, id))
UpdatePost(id, data) ==
    LET old == {q \in posts : q.id = id}
        new == {SetPost(q, data) : q \in old}
    IN  IF \E n \in new : \E q \in posts \ old : q.slug = n.slug
        THEN Throw("UNIQUE constraint failed: posts.slug", posts)
        ELSE Ok((posts \ old) \cup new)

SetCategory(row, data) ==
    [row EXCEPT !.name = IF Has(data.name) THEN Val(data.name) ELSE @,
                !.slug = IF Has(data.slug) THEN Val(data.slug) ELSE @]

\* db.update(categories).set(data).where(eq(categories.id, id))
UpdateCategory(id, data) ==
    LET old == {c \in categories : c.id = id}
        new == {SetCategory(c, data) : c \in old}
    IN  IF \E n \in new : \E c \in categories \ old : c.name = n.name
        THEN Throw("UNIQUE constraint failed: categories.name", categories)
        ELSE IF \E n \in new : \E c \in categories \ old : c.slug = n.slug
        THEN Throw("UNIQUE constraint failed: categories.slug", categories)
        ELSE Ok((categories \ old) \cup new)

\* db.delete(postCategories).where(eq(postCategories.postId, id))
DeletePostCategories(id) == Ok({r \in postCategories : r.postId # id})

\* db.delete(posts).where(eq(posts.id, id))
DeletePost(id) ==
    IF foreignKeys /\ (\E q \in posts : q.id = id) /\ \E r \in postCategories : r.postId = id
    THEN Throw("FOREIGN KEY constraint failed", posts)
    ELSE Ok({q \in posts : q.id # id})

\* db.delete(categories).where(eq(categories.id, id))
DeleteCategory(id) ==
    IF foreignKeys /\ (\E c \in categories : c.id = id)
                   /\ \E r \in postCategories : r.categoryId = id
    THEN Throw("FOREIGN KEY constraint failed", categories)
    ELSE Ok({c \in categories : c.id # id})

\* db.update(users).set({password}).where(eq(users.id, id))
UpdateUserPassword(id, hashed) ==
    Ok({IF u.id = id THEN [u EXCEPT !.password = hashed] ELSE u : u \in users})

\* select ... where(eq(column, value)).limit(1): the row, or undefined
SelectOne(rows) == IF rows = {} THEN None ELSE Some(CHOOSE r \in rows : TRUE)

(***************************************************************************)
(* utils/wrapper.ts: responses.                                            *)
(***************************************************************************)
\* createAPIResponse without its init argument: every response is a 200
createAPIResponse_Status200(success, message, errors, data, status) ==
    [status |-> 200, success |-> success, message |-> Some(message),
     errors |-> errors, data |-> data, pagination |-> None]

createAPIResponse(success, message, errors, data, status) ==
    [status |-> status, success |-> success, message |-> Some(message),
     errors |-> errors, data |-> data, pagination |-> None]

createPaginatedResponse(rows, page, limit, total, totalPages) ==
    [status |-> 200, success |-> TRUE, message |-> None, errors |-> None,
     data |-> rows,
     pagination |-> Some([page |-> page, limit |-> limit, total |-> total,
                          totalPages |-> totalPages])]

\* the catch blocks: a ZodError becomes 400 with its issues
ValidationError(issues) ==
    createAPIResponse(FALSE, "Validation error", Some(issues), None, 400)

\* the catch blocks of the post controller put the error's message in errors
InternalErrorWithMessage(message) ==
    createAPIResponse(FALSE, "Internal server error", Some(<<message>>), None, 500)

\* the catch blocks of the auth, user and category controllers only log it
InternalError == createAPIResponse(FALSE, "Internal server error", None, None, 500)

\* index.ts: the catch of fetch answers an exception that escaped the router
fetchCatch(message) ==
    [status |-> 500, success |-> FALSE, message |-> Some("Internal server error"),
     errors |-> Some(<<message>>), data |-> None, pagination |-> None]

NoResponse == [status |-> 0]

(***************************************************************************)
(* middleware/auth.ts and the route table of utils/wrapper.ts.             *)
(***************************************************************************)
\* authMiddleware that attaches every verified caller as an admin
authMiddleware_EveryoneAdmin(authHeader) ==
    LET token == extractTokenFromHeader(authHeader)
        payload == IF Has(token) THEN verifyToken(Val(token)) ELSE None
    IN  IF ~Has(token)
        THEN [response |-> Some(createAPIResponse(FALSE, "Access token required",
                                                  None, None, 401)),
              user |-> None]
        ELSE IF ~Has(payload)
        THEN [response |-> Some(createAPIResponse(FALSE, "Invalid or expired token",
                                                  None, None, 401)),
              user |-> None]
        ELSE [response |-> None,
              user |-> Some([id |-> Val(payload).userId,
                             username |-> Val(payload).username,
                             email |-> Val(payload).email,
                             role |-> "admin"])]

\* authMiddleware that reads the user's row and accepts the token only while
\* the stored hash is the one the account was registered with
authMiddleware_ReadsUser(authHeader) ==
    LET token == extractTokenFromHeader(authHeader)
        payload == IF Has(token) THEN verifyToken(Val(token)) ELSE None
    IN  IF ~Has(token)
        THEN [response |-> Some(createAPIResponse(FALSE, "Access token required",
                                                  None, None, 401)),
              user |-> None]
        ELSE IF ~Has(payload)
                \/ ~\E u \in users : /\ u.id = Val(payload).userId
                                      /\ u.password = hashPassword("secret1")
        THEN [response |-> Some(createAPIResponse(FALSE, "Invalid or expired token",
                                                  None, None, 401)),
              user |-> None]
        ELSE [response |-> None,
              user |-> Some([id |-> Val(payload).userId,
                             username |-> Val(payload).username,
                             email |-> Val(payload).email,
                             role |-> Val(payload).role])]

authMiddleware(authHeader) ==
    LET token == extractTokenFromHeader(authHeader)
        payload == IF Has(token) THEN verifyToken(Val(token)) ELSE None
    IN  IF ~Has(token)
        THEN [response |-> Some(createAPIResponse(FALSE, "Access token required",
                                                  None, None, 401)),
              user |-> None]
        ELSE IF ~Has(payload)
        THEN [response |-> Some(createAPIResponse(FALSE, "Invalid or expired token",
                                                  None, None, 401)),
              user |-> None]
        ELSE [response |-> None,
              user |-> Some([id |-> Val(payload).userId,
                             username |-> Val(payload).username,
                             email |-> Val(payload).email,
                             role |-> Val(payload).role])]

adminMiddleware(user) ==
    IF ~Has(user)
    THEN Some(createAPIResponse(FALSE, "Authentication required", None, None, 401))
    ELSE IF Val(user).role # "admin"
    THEN Some(createAPIResponse(FALSE, "Admin access required", None, None, 403))
    ELSE None

\* router.<method>(path, ...handlers): the middleware before each controller
router ==
    [route \in {"POST /auth/register", "POST /auth/login", "GET /posts",
                "GET /posts/:id", "GET /categories", "GET /categories/:id"}
        |-> <<>>]
    @@ [route \in {"GET /profile", "POST /profile/change-password",
                   "POST /posts", "PATCH /posts/:id", "DELETE /posts/:id"}
        |-> <<"authMiddleware">>]
    @@ [route \in {"POST /categories", "PATCH /categories/:id",
                   "DELETE /categories/:id"}
        |-> <<"authMiddleware", "adminMiddleware">>]

\* itty-router runs the handlers of a route in order until one responds
RECURSIVE RunHandlers(_, _, _, _)
RunHandlers(chain, i, authHeader, user) ==
    IF i > Len(chain) THEN [response |-> None, user |-> user]
    ELSE IF chain[i] = "authMiddleware"
    THEN LET a == authMiddleware(authHeader)
         IN  IF Has(a.response) THEN a
             ELSE RunHandlers(chain, i + 1, authHeader, a.user)
    ELSE LET r == adminMiddleware(user)
         IN  IF Has(r) THEN [response |-> r, user |-> user]
             ELSE RunHandlers(chain, i + 1, authHeader, user)

Middleware(route, authHeader) == RunHandlers(router[route], 1, authHeader, None)

(***************************************************************************)
(* Request slots.  A request arrives in an idle slot with its header, path *)
(* parameter and body; the first action of a handler runs the middleware,  *)
(* parses the body and issues the first statement; the last one responds.  *)
(***************************************************************************)
NoCtx == [route |-> "none"]

Ctx(route, authHeader, user, id, body, data) ==
    [route |-> route, header |-> authHeader, user |-> user, id |-> id,
     body |-> body, data |-> data]

Init ==
    /\ users = {}
    /\ posts = {}
    /\ categories = {}
    /\ postCategories = {}
    /\ nextUserId = 1
    /\ nextPostId = 1
    /\ nextCategoryId = 1
    /\ foreignKeys \in BOOLEAN
    /\ pc = [p \in Procs |-> "idle"]
    /\ ctx = [p \in Procs |-> NoCtx]
    /\ resp = [p \in Procs |-> NoResponse]
    /\ pre = [p \in Procs |-> NoTables]

Arrive(p, c) ==
    /\ ctx' = [ctx EXCEPT ![p] = c]
    /\ pre' = [pre EXCEPT ![p] = Tables]

Reply(p, r) ==
    /\ pc' = [pc EXCEPT ![p] = "done"]
    /\ resp' = [resp EXCEPT ![p] = r]

Goto(p, label) ==
    /\ pc' = [pc EXCEPT ![p] = label]
    /\ UNCHANGED resp

\* the response is sent and the slot is free again
Respond(p) ==
    /\ pc[p] = "done"
    /\ pc' = [pc EXCEPT ![p] = "idle"]
    /\ ctx' = [ctx EXCEPT ![p] = NoCtx]
    /\ resp' = [resp EXCEPT ![p] = NoResponse]
    /\ pre' = [pre EXCEPT ![p] = NoTables]
    /\ UNCHANGED <<tables, counters, foreignKeys>>

\* the payload login signs for a stored user
PayloadOf(u) == [userId |-> u.id, username |-> u.username, email |-> u.email,
                 role |-> u.role]

Bearer(token) == [present |-> TRUE, prefix |-> "Bearer ", rest |-> Some(token)]

\* the Authorization headers a request may carry: those of the domain (absent,
\* malformed, forged, expired) and a token login issued for a stored user
Headers(D) == D.headers \cup {Bearer(generateToken(PayloadOf(u))) : u \in users}

\* the user row as the store returns it, password column included
WithoutPassword_WholeRow(u) == u

WithoutPassword(u) == [id |-> u.id, username |-> u.username, email |-> u.email,
                       role |-> u.role]

(***************************************************************************)
(* controllers/authController.ts                                           *)
(***************************************************************************)
\* what register answers and leaves in table users
registerOutcome(body) ==
    LET validated == insertUserSchema(body)
    IN  IF validated.issues # <<>>
        THEN [response |-> ValidationError(validated.issues), users |-> users,
              nextUserId |-> nextUserId]
        ELSE
        LET row == [id |-> nextUserId,
                    username |-> Val(validated.data).username,
                    email |-> Val(validated.data).email,
                    password |-> hashPassword(Val(validated.data).password),
                    role |-> Val(validated.data).role]
            ins == InsertUser(row)
        IN  IF Has(ins.error)
            THEN [response |-> createAPIResponse(FALSE, "Username or email already exists",
                                                 Some(<<Val(ins.error)>>), None, 409),
                  users |-> users, nextUserId |-> nextUserId]
            ELSE [response |-> createAPIResponse(TRUE, "User registered successfully",
                                                 None, Some(WithoutPassword(row)), 201),
                  users |-> ins.rows, nextUserId |-> nextUserId + 1]

register(p, D) ==
    /\ pc[p] = "idle"
    /\ \E body \in D.registerBodies :
          LET out == registerOutcome(body)
          IN  /\ Arrive(p, Ctx("POST /auth/register", NoHeader, None, 0, body, None))
              /\ users' = out.users
              /\ nextUserId' = out.nextUserId
              /\ Reply(p, out.response)
    /\ UNCHANGED <<posts, categories, postCategories, nextPostId, nextCategoryId, foreignKeys>>

\* login that tells an unknown username from a wrong password
loginOutcome_UserNotFound(body) ==
    LET issues == loginSchema(body)
        user == IF issues = <<>>
                THEN SelectOne({u \in users : u.username = Val(body.username)})
                ELSE None
    IN  IF issues # <<>> THEN ValidationError(issues)
        ELSE IF ~Has(user)
        THEN createAPIResponse(FALSE, "User not found", None, None, 404)
        ELSE IF ~verifyPassword(Val(body.password), Val(user).password)
        THEN createAPIResponse(FALSE, "Invalid username or password", None, None, 401)
        ELSE createAPIResponse(TRUE, "Login successful", None,
                               Some([user |-> WithoutPassword(Val(user)),
                                     token |-> generateToken(PayloadOf(Val(user)))]),
                               200)

loginOutcome(body) ==
    LET issues == loginSchema(body)
        user == IF issues = <<>>
                THEN SelectOne({u \in users : u.username = Val(body.username)})
                ELSE None
    IN  IF issues # <<>> THEN ValidationError(issues)
        ELSE IF ~Has(user) \/ ~verifyPassword(Val(body.password), Val(user).password)
        THEN createAPIResponse(FALSE, "Invalid username or password", None, None, 401)
        ELSE createAPIResponse(TRUE, "Login successful", None,
                               Some([user |-> WithoutPassword(Val(user)),
                                     token |-> generateToken(PayloadOf(Val(user)))]),
                               200)

login(p, D) ==
    /\ pc[p] = "idle"
    /\ \E body \in D.loginBodies :
          /\ Arrive(p, Ctx("POST /auth/login", NoHeader, None, 0, body, None))
          /\ Reply(p, loginOutcome(body))
    /\ UNCHANGED <<tables, counters, foreignKeys>>

(***************************************************************************)
(* controllers/userController.ts                                           *)
(***************************************************************************)
getProfileOutcome(mw) ==
    LET user == IF Has(mw.user)
                THEN SelectOne({u \in users : u.id = Val(mw.user).id})
                ELSE None
    IN  IF Has(mw.response) THEN Val(mw.response)
        ELSE IF ~Has(mw.user)
        THEN createAPIResponse(FALSE, "Authentication required", None, None, 401)
        ELSE IF ~Has(user)
        THEN createAPIResponse(FALSE, "User not found", None, None, 404)
        ELSE createAPIResponse(TRUE, "Profile retrieved successfully", None,
                               Some(WithoutPassword(Val(user))), 200)

getProfile(p, D) ==
    /\ pc[p] = "idle"
    /\ \E h \in Headers(D) :
          LET mw == Middleware("GET /profile", h)
          IN  /\ Arrive(p, Ctx("GET /profile", h, mw.user, 0, None, None))
              /\ Reply(p, getProfileOutcome(mw))
    /\ UNCHANGED <<tables, counters, foreignKeys>>

\* changePassword up to its select: the response, if it already has one
\* changePassword without the comparison of currentPassword with the hash
changePasswordCheck_NoVerify(mw, body) ==
    LET issues == changePasswordSchema(body)
        user == IF Has(mw.user)
                THEN SelectOne({u \in users : u.id = Val(mw.user).id})
                ELSE None
    IN  IF Has(mw.response) THEN mw.response
        ELSE IF ~Has(mw.user)
        THEN Some(createAPIResponse(FALSE, "Authentication required", None, None, 401))
        ELSE IF issues # <<>> THEN Some(ValidationError(issues))
        ELSE IF ~Has(user)
        THEN Some(createAPIResponse(FALSE, "Current password is incorrect", None, None, 401))
        ELSE None

changePasswordCheck(mw, body) ==
    LET issues == changePasswordSchema(body)
        user == IF Has(mw.user)
                THEN SelectOne({u \in users : u.id = Val(mw.user).id})
                ELSE None
    IN  IF Has(mw.response) THEN mw.response
        ELSE IF ~Has(mw.user)
        THEN Some(createAPIResponse(FALSE, "Authentication required", None, None, 401))
        ELSE IF issues # <<>> THEN Some(ValidationError(issues))
        ELSE IF ~Has(user) \/ ~verifyPassword(Val(body.currentPassword), Val(user).password)
        THEN Some(createAPIResponse(FALSE, "Current password is incorrect", None, None, 401))
        ELSE None

changePassword(p, D) ==
    /\ pc[p] = "idle"
    /\ \E h \in Headers(D), body \in D.passwordBodies :
          LET mw == Middleware("POST /profile/change-password", h)
              r == changePasswordCheck(mw, body)
          IN  /\ Arrive(p, Ctx("POST /profile/change-password", h, mw.user, 0, body, None))
              /\ IF Has(r) THEN Reply(p, Val(r)) ELSE Goto(p, "changePassword:update")
    /\ UNCHANGED <<tables, counters, foreignKeys>>

changePasswordUpdate(p) ==
    /\ pc[p] = "changePassword:update"
    /\ users' = UpdateUserPassword(Val(ctx[p].user).id,
                                   hashPassword(Val(ctx[p].body.newPassword))).rows
    /\ Reply(p, createAPIResponse(TRUE, "Password changed successfully", None, None, 200))
    /\ UNCHANGED <<posts, categories, postCategories, counters, foreignKeys, ctx, pre>>

(***************************************************************************)
(* controllers/postController.ts                                           *)
(***************************************************************************)
\* select {post columns, author} from posts left join users where posts.id = id
SelectPostWithAuthor(id) ==
    SelectOne({[id |-> q.id, title |-> q.title, slug |-> q.slug,
                contentType |-> q.contentType, status |-> q.status,
                author |-> SelectOne({[id |-> u.id, username |-> u.username,
                                       email |-> u.email] :
                                      u \in {v \in users : v.id = q.authorId}})] :
               q \in {r \in posts : r.id = id}})

\* select {category columns} from post_categories left join categories
\* where post_id = id: a row per association, null columns without category
SelectPostCategoriesList(id) ==
    {[categoryId |-> r.categoryId,
      category |-> SelectOne({[id |-> c.id, name |-> c.name, slug |-> c.slug] :
                              c \in {d \in categories : d.id = r.categoryId}})] :
     r \in {x \in postCategories : x.postId = id}}

\* body.categoryIds || []
CategoryIdsOrEmpty(body) == IF Has(body.categoryIds) THEN Val(body.categoryIds) ELSE <<>>

\* createPost up to its first select: the response, if it already has one
createPostCheck(mw, body) ==
    LET parsed == insertPostSchema(body)
    IN  IF Has(mw.response) THEN mw.response
        ELSE IF ~Has(mw.user)
        THEN Some(createAPIResponse(FALSE, "Authentication required", None, None, 401))
        ELSE IF parsed.issues # <<>> THEN Some(ValidationError(parsed.issues))
        ELSE IF ~validateSlug(Val(Val(parsed.data).slug))
        THEN Some(createAPIResponse(FALSE, "Invalid slug format",
                    Some(<<"Slug must contain only lowercase letters, numbers, and hyphens">>),
                    None, 400))
        ELSE IF \E q \in posts : q.slug = Val(Val(parsed.data).slug)
        THEN Some(createAPIResponse(FALSE, "Post slug already exists", None, None, 409))
        ELSE None

createPost(p, D) ==
    /\ pc[p] = "idle"
    /\ nextPostId <= D.maxPosts
    /\ \E h \in Headers(D), body \in D.postBodies :
          LET mw == Middleware("POST /posts", h)
              r == createPostCheck(mw, body)
          IN  /\ Arrive(p, Ctx("POST /posts", h, mw.user, 0, body,
                               insertPostSchema(body).data))
              /\ IF Has(r) THEN Reply(p, Val(r))
                 ELSE IF Len(CategoryIdsOrEmpty(body)) > 0
                 THEN Goto(p, "createPost:selectCategories")
                 ELSE Goto(p, "createPost:insert")
    /\ UNCHANGED <<tables, counters, foreignKeys>>

createPostSelectCategories(p) ==
    /\ pc[p] = "createPost:selectCategories"
    /\ LET categoryIds == CategoryIdsOrEmpty(ctx[p].body)
           validCategories == {c \in categories : c.id \in Range(categoryIds)}
       IN  IF Cardinality(validCategories) # Len(categoryIds)
           THEN Reply(p, createAPIResponse(FALSE, "One or more categories not found",
                                           None, None, 404))
           ELSE Goto(p, "createPost:insert")
    /\ UNCHANGED <<tables, counters, foreignKeys, ctx, pre>>

createPostInsert(p) ==
    /\ pc[p] = "createPost:insert"
    /\ LET data == Val(ctx[p].data)
           row == [id |-> nextPostId, title |-> Val(data.title), slug |-> Val(data.slug),
                   contentType |-> Val(data.contentType), status |-> Val(data.status),
                   authorId |-> Val(ctx[p].user).id]
           ins == InsertPost(row)
       IN  IF Has(ins.error)
           THEN /\ Reply(p, InternalErrorWithMessage(Val(ins.error)))
                /\ UNCHANGED <<posts, nextPostId, ctx>>
           ELSE /\ posts' = ins.rows
                /\ nextPostId' = nextPostId + 1
                /\ ctx' = [ctx EXCEPT ![p].id = row.id]
                /\ IF Len(CategoryIdsOrEmpty(ctx[p].body)) > 0
                   THEN Goto(p, "createPost:insertCategories")
                   ELSE Goto(p, "createPost:readPost")
    /\ UNCHANGED <<users, categories, postCategories, nextUserId, nextCategoryId,
                   foreignKeys, pre>>

createPostInsertCategories(p) ==
    /\ pc[p] = "createPost:insertCategories"
    /\ LET ins == InsertPostCategories(ctx[p].id, CategoryIdsOrEmpty(ctx[p].body))
       IN  IF Has(ins.error)
           THEN /\ Reply(p, InternalErrorWithMessage(Val(ins.error)))
                /\ UNCHANGED postCategories
           ELSE /\ postCategories' = ins.rows
                /\ Goto(p, "createPost:readPost")
    /\ UNCHANGED <<users, posts, categories, counters, foreignKeys, ctx, pre>>

\* the select of postWithAuthor that createPost and updatePost end with
ReadPost(p, from, to) ==
    /\ pc[p] = from
    /\ ctx' = [ctx EXCEPT ![p].data = SelectPostWithAuthor(ctx[p].id)]
    /\ Goto(p, to)
    /\ UNCHANGED <<tables, counters, foreignKeys, pre>>

\* the select of the post's categories and the response {...post, categories}
ReadCategories(p, from, message, status) ==
    /\ pc[p] = from
    /\ Reply(p, createAPIResponse(TRUE, message, None,
                                  Some([post |-> ctx[p].data,
                                        categories |-> SelectPostCategoriesList(ctx[p].id)]),
                                  status))
    /\ UNCHANGED <<tables, counters, foreignKeys, ctx, pre>>

createPostReadPost(p) == ReadPost(p, "createPost:readPost", "createPost:readCategories")

createPostReadCategories(p) ==
    ReadCategories(p, "createPost:readCategories", "Post created successfully", 201)

\* getPost: the select of the post, then that of its categories
getPost(p, D) ==
    /\ pc[p] = "idle"
    /\ \E id \in D.postIds :
          LET post == SelectPostWithAuthor(id)
          IN  /\ Arrive(p, Ctx("GET /posts/:id", NoHeader, None, id, None, post))
              /\ IF ~Has(post)
                 THEN Reply(p, createAPIResponse(FALSE, "Post not found", None, None, 404))
                 ELSE Goto(p, "getPost:readCategories")
    /\ UNCHANGED <<tables, counters, foreignKeys>>

getPostReadCategories(p) ==
    ReadCategories(p, "getPost:readCategories", "Post retrieved successfully", 200)

\* updatePostCheck without the exemption of admins from the ownership rule
updatePostCheck_AuthorOnly(mw, id, body) ==
    LET parsed == postUpdateSchema(body)
        existingPost == SelectOne({q \in posts : q.id = id})
    IN  IF Has(mw.response) THEN mw.response
        ELSE IF ~Has(mw.user)
        THEN Some(createAPIResponse(FALSE, "Authentication required", None, None, 401))
        ELSE IF parsed.issues # <<>> THEN Some(ValidationError(parsed.issues))
        ELSE IF Has(Val(parsed.data).slug) /\ ~validateSlug(Val(Val(parsed.data).slug))
        THEN Some(createAPIResponse(FALSE, "Invalid slug format",
                    Some(<<"Slug must contain only lowercase letters, numbers, and hyphens">>),
                    None, 400))
        ELSE IF ~Has(existingPost)
        THEN Some(createAPIResponse(FALSE, "Post not found", None, None, 404))
        ELSE IF Val(existingPost).authorId # Val(mw.user).id
        THEN Some(createAPIResponse(FALSE, "You can only edit your own posts",
                                    None, None, 403))
        ELSE None

\* updatePost up to its first select: the response, if it already has one
updatePostCheck(mw, id, body) ==
    LET parsed == postUpdateSchema(body)
        existingPost == SelectOne({q \in posts : q.id = id})
    IN  IF Has(mw.response) THEN mw.response
        ELSE IF ~Has(mw.user)
        THEN Some(createAPIResponse(FALSE, "Authentication required", None, None, 401))
        ELSE IF parsed.issues # <<>> THEN Some(ValidationError(parsed.issues))
        ELSE IF Has(Val(parsed.data).slug) /\ ~validateSlug(Val(Val(parsed.data).slug))
        THEN Some(createAPIResponse(FALSE, "Invalid slug format",
                    Some(<<"Slug must contain only lowercase letters, numbers, and hyphens">>),
                    None, 400))
        ELSE IF ~Has(existingPost)
        THEN Some(createAPIResponse(FALSE, "Post not found", None, None, 404))
        ELSE IF Val(existingPost).authorId # Val(mw.user).id /\ Val(mw.user).role # "admin"
        THEN Some(createAPIResponse(FALSE, "You can only edit your own posts",
                                    None, None, 403))
        ELSE None

\* the installed zod decides what a field with .default() yields under
\* .partial() when the body omits it: undefined (zod 3), or the default (zod 4,
\* where an optional runs a defaulted inner schema on undefined); the source
\* does not pin the version, so either may be the build
PartialKeepsDefaults == BOOLEAN

PartialData(data, keepsDefaults) ==
    IF ~keepsDefaults THEN data
    ELSE [data EXCEPT !.contentType = IF Has(@) THEN @ ELSE Some("markdown"),
                      !.status = IF Has(@) THEN @ ELSE Some("draft")]

updatePost(p, D) ==
    /\ pc[p] = "idle"
    /\ \E h \in Headers(D), id \in D.postIds, body \in D.postUpdateBodies,
          keepsDefaults \in PartialKeepsDefaults :
          LET mw == Middleware("PATCH /posts/:id", h)
              r == updatePostCheck(mw, id, body)
              parsed == postUpdateSchema(body).data
              data == IF Has(parsed) /\ ~Has(r)
                      THEN Some(PartialData(Val(parsed), keepsDefaults))
                      ELSE parsed
          IN  /\ Arrive(p, Ctx("PATCH /posts/:id", h, mw.user, id, body, data))
              /\ IF Has(r) THEN Reply(p, Val(r))
                 ELSE IF Has(Val(data).slug)
                         /\ \E q \in posts : q.id = id /\ q.slug # Val(Val(data).slug)
                 THEN Goto(p, "updatePost:selectSlug")
                 ELSE Goto(p, "updatePost:update")
    /\ UNCHANGED <<tables, counters, foreignKeys>>

updatePostSelectSlug(p) ==
    /\ pc[p] = "updatePost:selectSlug"
    /\ IF \E q \in posts : q.slug = Val(Val(ctx[p].data).slug)
       THEN Reply(p, createAPIResponse(FALSE, "Post slug already exists", None, None, 409))
       ELSE Goto(p, "updatePost:update")
    /\ UNCHANGED <<tables, counters, foreignKeys, ctx, pre>>

updatePostUpdate(p) ==
    /\ pc[p] = "updatePost:update"
    /\ LET upd == UpdatePost(ctx[p].id, Val(ctx[p].data))
       IN  IF Has(upd.error)
           THEN /\ Reply(p, InternalErrorWithMessage(Val(upd.error)))
                /\ UNCHANGED posts
           ELSE /\ posts' = upd.rows
                /\ IF Has(ctx[p].body.categoryIds)
                   THEN Goto(p, "updatePost:deleteCategories")
                   ELSE Goto(p, "updatePost:readPost")
    /\ UNCHANGED <<users, categories, postCategories, counters, foreignKeys, ctx, pre>>

\* updatePost that adds the new associations to the old ones
updatePostDeleteCategories_Keep(p) ==
    /\ pc[p] = "updatePost:deleteCategories"
    /\ IF Len(Val(ctx[p].body.categoryIds)) > 0
       THEN Goto(p, "updatePost:insertCategories")
       ELSE Goto(p, "updatePost:readPost")
    /\ UNCHANGED <<tables, counters, foreignKeys, ctx, pre>>

updatePostDeleteCategories(p) ==
    /\ pc[p] = "updatePost:deleteCategories"
    /\ postCategories' = DeletePostCategories(ctx[p].id).rows
    /\ IF Len(Val(ctx[p].body.categoryIds)) > 0
       THEN Goto(p, "updatePost:insertCategories")
       ELSE Goto(p, "updatePost:readPost")
    /\ UNCHANGED <<users, posts, categories, counters, foreignKeys, ctx, pre>>

updatePostInsertCategories(p) ==
    /\ pc[p] = "updatePost:insertCategories"
    /\ LET ins == InsertPostCategories(ctx[p].id, Val(ctx[p].body.categoryIds))
       IN  IF Has(ins.error)
           THEN /\ Reply(p, InternalErrorWithMessage(Val(ins.error)))
                /\ UNCHANGED postCategories
           ELSE /\ postCategories' = ins.rows
                /\ Goto(p, "updatePost:readPost")
    /\ UNCHANGED <<users, posts, categories, counters, foreignKeys, ctx, pre>>

updatePostReadPost(p) == ReadPost(p, "updatePost:readPost", "updatePost:readCategories")

updatePostReadCategories(p) ==
    ReadCategories(p, "updatePost:readCategories", "Post updated successfully", 200)

\* deletePost up to its select: the response, if it already has one
deletePostCheck(mw, id) ==
    LET existingPost == SelectOne({q \in posts : q.id = id})
    IN  IF Has(mw.response) THEN mw.response
        ELSE IF ~Has(mw.user)
        THEN Some(createAPIResponse(FALSE, "Authentication required", None, None, 401))
        ELSE IF ~Has(existingPost)
        THEN Some(createAPIResponse(FALSE, "Post not found", None, None, 404))
        ELSE IF Val(existingPost).authorId # Val(mw.user).id /\ Val(mw.user).role # "admin"
        THEN Some(createAPIResponse(FALSE, "You can only delete your own posts",
                                    None, None, 403))
        ELSE None

deletePost(p, D) ==
    /\ pc[p] = "idle"
    /\ \E h \in Headers(D), id \in D.postIds :
          LET mw == Middleware("DELETE /posts/:id", h)
              r == deletePostCheck(mw, id)
          IN  /\ Arrive(p, Ctx("DELETE /posts/:id", h, mw.user, id, None, None))
              /\ IF Has(r) THEN Reply(p, Val(r))
                 ELSE Goto(p, "deletePost:deleteCategories")
    /\ UNCHANGED <<tables, counters, foreignKeys>>

\* deletePost that leaves the associations to the delete of the post row
deletePostDeleteCategories_Skip(p) ==
    /\ pc[p] = "deletePost:deleteCategories"
    /\ Goto(p, "deletePost:delete")
    /\ UNCHANGED <<tables, counters, foreignKeys, ctx, pre>>

deletePostDeleteCategories(p) ==
    /\ pc[p] = "deletePost:deleteCategories"
    /\ postCategories' = DeletePostCategories(ctx[p].id).rows
    /\ Goto(p, "deletePost:delete")
    /\ UNCHANGED <<users, posts, categories, counters, foreignKeys, ctx, pre>>

deletePostDelete(p) ==
    /\ pc[p] = "deletePost:delete"
    /\ LET del == DeletePost(ctx[p].id)
       IN  IF Has(del.error)
           THEN /\ Reply(p, InternalErrorWithMessage(Val(del.error)))
                /\ UNCHANGED posts
           ELSE /\ posts' = del.rows
                /\ Reply(p, createAPIResponse(TRUE, "Post deleted successfully",
                                              None, None, 200))
    /\ UNCHANGED <<users, categories, postCategories, counters, foreignKeys, ctx, pre>>

(***************************************************************************)
(* controllers/categoryController.ts                                       *)
(***************************************************************************)
AdminRequired(mw) == ~Has(mw.user) \/ Val(mw.user).role # "admin"

\* createCategory up to its select: the response, if it already has one
createCategoryCheck(mw, body) ==
    LET parsed == insertCategorySchema(body)
    IN  IF Has(mw.response) THEN mw.response
        ELSE IF AdminRequired(mw)
        THEN Some(createAPIResponse(FALSE, "Admin access required", None, None, 403))
        ELSE IF parsed.issues # <<>> THEN Some(ValidationError(parsed.issues))
        ELSE IF ~validateSlug(Val(Val(parsed.data).slug))
        THEN Some(createAPIResponse(FALSE, "Invalid slug format",
                    Some(<<"Slug must contain only lowercase letters, numbers, and hyphens">>),
                    None, 400))
        ELSE IF \E c \in categories : c.slug = Val(Val(parsed.data).slug)
        THEN Some(createAPIResponse(FALSE, "Category slug already exists", None, None, 409))
        ELSE None

createCategory(p, D) ==
    /\ pc[p] = "idle"
    /\ nextCategoryId <= D.maxCategories
    /\ \E h \in Headers(D), body \in D.categoryBodies :
          LET mw == Middleware("POST /categories", h)
              r == createCategoryCheck(mw, body)
          IN  /\ Arrive(p, Ctx("POST /categories", h, mw.user, 0, body,
                               insertCategorySchema(body).data))
              /\ IF Has(r) THEN Reply(p, Val(r)) ELSE Goto(p, "createCategory:insert")
    /\ UNCHANGED <<tables, counters, foreignKeys>>

createCategoryInsert(p) ==
    /\ pc[p] = "createCategory:insert"
    /\ LET data == Val(ctx[p].data)
           row == [id |-> nextCategoryId, name |-> Val(data.name), slug |-> Val(data.slug)]
           ins == InsertCategory(row)
       IN  IF Has(ins.error)
           THEN /\ Reply(p, InternalError)
                /\ UNCHANGED <<categories, nextCategoryId>>
           ELSE /\ categories' = ins.rows
                /\ nextCategoryId' = nextCategoryId + 1
                /\ Reply(p, createAPIResponse(TRUE, "Category created successfully",
                                              None, Some(row), 201))
    /\ UNCHANGED <<users, posts, postCategories, nextUserId, nextPostId, foreignKeys,
                   ctx, pre>>

\* updateCategory up to its first select: the response, if it already has one
updateCategoryCheck(mw, id, body) ==
    LET parsed == categoryUpdateSchema(body)
    IN  IF Has(mw.response) THEN mw.response
        ELSE IF AdminRequired(mw)
        THEN Some(createAPIResponse(FALSE, "Admin access required", None, None, 403))
        ELSE IF parsed.issues # <<>> THEN Some(ValidationError(parsed.issues))
        ELSE IF Has(Val(parsed.data).slug) /\ ~validateSlug(Val(Val(parsed.data).slug))
        THEN Some(createAPIResponse(FALSE, "Invalid slug format",
                    Some(<<"Slug must contain only lowercase letters, numbers, and hyphens">>),
                    None, 400))
        ELSE IF ~\E c \in categories : c.id = id
        THEN Some(createAPIResponse(FALSE, "Category not found", None, None, 404))
        ELSE None

updateCategory(p, D) ==
    /\ pc[p] = "idle"
    /\ \E h \in Headers(D), id \in D.categoryIds, body \in D.categoryUpdateBodies :
          LET mw == Middleware("PATCH /categories/:id", h)
              r == updateCategoryCheck(mw, id, body)
              data == categoryUpdateSchema(body).data
          IN  /\ Arrive(p, Ctx("PATCH /categories/:id", h, mw.user, id, body, data))
              /\ IF Has(r) THEN Reply(p, Val(r))
                 ELSE IF Has(Val(data).slug)
                         /\ \E c \in categories : c.id = id /\ c.slug # Val(Val(data).slug)
                 THEN Goto(p, "updateCategory:selectSlug")
                 ELSE Goto(p, "updateCategory:update")
    /\ UNCHANGED <<tables, counters, foreignKeys>>

updateCategorySelectSlug(p) ==
    /\ pc[p] = "updateCategory:selectSlug"
    /\ IF \E c \in categories : c.slug = Val(Val(ctx[p].data).slug)
       THEN Reply(p, createAPIResponse(FALSE, "Category slug already exists",
                                       None, None, 409))
       ELSE Goto(p, "updateCategory:update")
    /\ UNCHANGED <<tables, counters, foreignKeys, ctx, pre>>

updateCategoryUpdate(p) ==
    /\ pc[p] = "updateCategory:update"
    /\ LET upd == UpdateCategory(ctx[p].id, Val(ctx[p].data))
       IN  IF Has(upd.error)
           THEN /\ Reply(p, InternalError)
                /\ UNCHANGED categories
           ELSE /\ categories' = upd.rows
                /\ Reply(p, createAPIResponse(TRUE, "Category updated successfully", None,
                                              SelectOne({c \in upd.rows : c.id = ctx[p].id}),
                                              200))
    /\ UNCHANGED <<users, posts, postCategories, counters, foreignKeys, ctx, pre>>

\* deleteCategory up to its first select: the response, if it already has one
deleteCategoryCheck(mw, id) ==
    IF Has(mw.response) THEN mw.response
    ELSE IF AdminRequired(mw)
    THEN Some(createAPIResponse(FALSE, "Admin access required", None, None, 403))
    ELSE IF ~\E c \in categories : c.id = id
    THEN Some(createAPIResponse(FALSE, "Category not found", None, None, 404))
    ELSE None

deleteCategory(p, D) ==
    /\ pc[p] = "idle"
    /\ \E h \in Headers(D), id \in D.categoryIds :
          LET mw == Middleware("DELETE /categories/:id", h)
              r == deleteCategoryCheck(mw, id)
          IN  /\ Arrive(p, Ctx("DELETE /categories/:id", h, mw.user, id, None, None))
              /\ IF Has(r) THEN Reply(p, Val(r)) ELSE Goto(p, "deleteCategory:count")
    /\ UNCHANGED <<tables, counters, foreignKeys>>

\* deleteCategoryCount without the guard on the count
deleteCategoryCount_NoGuard(p) ==
    /\ pc[p] = "deleteCategory:count"
    /\ Goto(p, "deleteCategory:delete")
    /\ UNCHANGED <<tables, counters, foreignKeys, ctx, pre>>

\* select COUNT(*) from post_categories where category_id = id
deleteCategoryCount(p) ==
    /\ pc[p] = "deleteCategory:count"
    /\ IF Cardinality({r \in postCategories : r.categoryId = ctx[p].id}) > 0
       THEN Reply(p, createAPIResponse(FALSE, "Cannot delete category with associated posts",
                                       None, None, 400))
       ELSE Goto(p, "deleteCategory:delete")
    /\ UNCHANGED <<tables, counters, foreignKeys, ctx, pre>>

deleteCategoryDelete(p) ==
    /\ pc[p] = "deleteCategory:delete"
    /\ LET del == DeleteCategory(ctx[p].id)
       IN  IF Has(del.error)
           THEN /\ Reply(p, InternalError)
                /\ UNCHANGED categories
           ELSE /\ categories' = del.rows
                /\ Reply(p, createAPIResponse(TRUE, "Category deleted successfully",
                                              None, None, 200))
    /\ UNCHANGED <<users, posts, postCategories, counters, foreignKeys, ctx, pre>>

\* COUNT(posts.id) over categories left join post_categories left join posts
PostCount(c) ==
    Cardinality({r \in postCategories :
                    r.categoryId = c.id /\ \E q \in posts : q.id = r.postId})

WithPostCount(c) == [id |-> c.id, name |-> c.name, slug |-> c.slug,
                     postCount |-> PostCount(c)]

getCategory(p, D) ==
    /\ pc[p] = "idle"
    /\ \E id \in D.categoryIds :
          LET category == SelectOne({WithPostCount(c) : c \in {d \in categories : d.id = id}})
          IN  /\ Arrive(p, Ctx("GET /categories/:id", NoHeader, None, id,
                               None, None))
              /\ IF ~Has(category)
                 THEN Reply(p, createAPIResponse(FALSE, "Category not found",
                                                 None, None, 404))
                 ELSE Reply(p, createAPIResponse(TRUE, "Category retrieved successfully",
                                                 None, category, 200))
    /\ UNCHANGED <<tables, counters, foreignKeys>>

(***************************************************************************)
(* The listings: getPosts and getCategories.  Rows carry no timestamp in   *)
(* the model; created_at grows with the id, so a listing sorted by         *)
(* created_at is the rows in id order.  The query strings of the model     *)
(* carry no search text and sort by created_at.                            *)
(***************************************************************************)
\* z.coerce.number().int().min(1).default(1)
PageIssues(query) ==
    IF ~Has(query.page) \/ Val(query.page) >= 1 THEN <<>> ELSE <<"page">>

\* z.coerce.number().int().min(1).max(100).default(10)
LimitIssues(query) ==
    IF ~Has(query.limit) \/ (Val(query.limit) >= 1 /\ Val(query.limit) <= MaxPageLimit)
    THEN <<>> ELSE <<"limit">>

DefaultPage == 1
DefaultLimit == 10

postsQuerySchema(query) ==
    LET issues ==
            PageIssues(query) \o LimitIssues(query)
         \o (IF ~Has(query.status) \/ Val(query.status) \in postStatusSchema
             THEN <<>> ELSE <<"status">>)
         \o (IF ~Has(query.category) \/ Val(query.category) > 0 THEN <<>> ELSE <<"category">>)
         \o (IF ~Has(query.author) \/ Val(query.author) > 0 THEN <<>> ELSE <<"author">>)
         \o (IF query.sortOrder \in {"asc", "desc"} THEN <<>> ELSE <<"sortOrder">>)
    IN  [issues |-> issues,
         data |-> IF issues # <<>> THEN None
                  ELSE Some([page |-> IF Has(query.page) THEN Val(query.page) ELSE DefaultPage,
                             limit |-> IF Has(query.limit) THEN Val(query.limit)
                                       ELSE DefaultLimit,
                             status |-> query.status, category |-> query.category,
                             author |-> query.author, sortOrder |-> query.sortOrder])]

categoriesQuerySchema(query) ==
    LET issues == PageIssues(query) \o LimitIssues(query)
                  \o (IF query.sortOrder \in {"asc", "desc"} THEN <<>> ELSE <<"sortOrder">>)
    IN  [issues |-> issues,
         data |-> IF issues # <<>> THEN None
                  ELSE Some([page |-> IF Has(query.page) THEN Val(query.page) ELSE DefaultPage,
                             limit |-> IF Has(query.limit) THEN Val(query.limit)
                                       ELSE DefaultLimit,
                             sortOrder |-> query.sortOrder])]

\* orderBy(asc(created_at)) / orderBy(desc(created_at)) of a set of rows
RECURSIVE OrderBy(_, _)
OrderBy(rows, sortOrder) ==
    IF rows = {} THEN <<>>
    ELSE LET first == CHOOSE r \in rows :
                         \A o \in rows : IF sortOrder = "desc" THEN o.id <= r.id
                                         ELSE o.id >= r.id
         IN  <<first>> \o OrderBy(rows \ {first}, sortOrder)

\* LimitOffset without the offset: every page is the first one
LimitOffset_NoOffset(list, limit, offset) == SubSeq(list, 1, Min(Len(list), limit))

\* .limit(limit).offset(offset)
LimitOffset(list, limit, offset) == SubSeq(list, offset + 1, Min(Len(list), offset + limit))

\* Math.ceil(total / limit)
Ceil(total, limit) == (total + limit - 1) \div limit

\* whereClause without the status condition
PostsWhere_NoStatus(query, postIds) ==
    {q \in posts :
        /\ Has(query.author) => q.authorId = Val(query.author)
        /\ Has(query.category) =>
              IF postIds # {} THEN q.id \in postIds ELSE q.id = -1}

\* the earlier where clause: a category without posts adds no condition
PostsWhere_NoEmptyCategory(query, postIds) ==
    {q \in posts :
        /\ Has(query.status) => q.status = Val(query.status)
        /\ Has(query.author) => q.authorId = Val(query.author)
        /\ (Has(query.category) /\ postIds # {}) => q.id \in postIds}

\* the rows of posts that whereClause keeps; postIds are the posts of the
\* category filter, selected by the statement before
PostsWhere(query, postIds) ==
    {q \in posts :
        /\ Has(query.status) => q.status = Val(query.status)
        /\ Has(query.author) => q.authorId = Val(query.author)
        /\ Has(query.category) =>
              IF postIds # {} THEN q.id \in postIds ELSE q.id = -1}

PostListRow(q) ==
    [id |-> q.id, title |-> q.title, slug |-> q.slug, status |-> q.status,
     author |-> SelectOne({[id |-> u.id, username |-> u.username] :
                           u \in {v \in users : v.id = q.authorId}})]

getPosts(p, D) ==
    /\ pc[p] = "idle"
    /\ \E query \in D.postQueries :
          LET parsed == postsQuerySchema(query)
          IN  /\ Arrive(p, Ctx("GET /posts", NoHeader, None, 0, query, {}))
              /\ IF parsed.issues # <<>> THEN Reply(p, ValidationError(parsed.issues))
                 ELSE IF Has(query.category) THEN Goto(p, "getPosts:selectCategory")
                 ELSE Goto(p, "getPosts:query")
    /\ UNCHANGED <<tables, counters, foreignKeys>>

\* select from post_categories where category_id = query.category
getPostsSelectCategory(p) ==
    /\ pc[p] = "getPosts:selectCategory"
    /\ ctx' = [ctx EXCEPT ![p].data =
                  {r.postId : r \in {x \in postCategories :
                                        x.categoryId = Val(ctx[p].body.category)}}]
    /\ Goto(p, "getPosts:query")
    /\ UNCHANGED <<tables, counters, foreignKeys, pre>>

\* Promise.all of the page and of COUNT(posts.id)
getPostsQuery(p) ==
    /\ pc[p] = "getPosts:query"
    /\ LET query == Val(postsQuerySchema(ctx[p].body).data)
           offset == (query.page - 1) * query.limit
           matching == PostsWhere(query, ctx[p].data)
           postsList == LimitOffset(OrderBy({PostListRow(q) : q \in matching},
                                            query.sortOrder),
                                    query.limit, offset)
           totalCount == Cardinality(matching)
       IN  Reply(p, createPaginatedResponse(postsList, query.page, query.limit, totalCount,
                                            Ceil(totalCount, query.limit)))
    /\ UNCHANGED <<tables, counters, foreignKeys, ctx, pre>>

getCategories(p, D) ==
    /\ pc[p] = "idle"
    /\ \E query \in D.categoryQueries :
          LET parsed == categoriesQuerySchema(query)
          IN  /\ Arrive(p, Ctx("GET /categories", NoHeader, None, 0, query, None))
              /\ IF parsed.issues # <<>> THEN Reply(p, ValidationError(parsed.issues))
                 ELSE LET q == Val(parsed.data)
                          offset == (q.page - 1) * q.limit
                          categoriesList ==
                              LimitOffset(OrderBy({WithPostCount(c) : c \in categories},
                                                  q.sortOrder),
                                          q.limit, offset)
                          totalCount == Cardinality({c.id : c \in categories})
                      IN  Reply(p, createPaginatedResponse(categoriesList, q.page, q.limit,
                                                           totalCount,
                                                           Ceil(totalCount, q.limit)))
    /\ UNCHANGED <<tables, counters, foreignKeys>>

(***************************************************************************)
(* The requests of the model.                                              *)
(***************************************************************************)
Alice == "alice"
Bob == "bob"
Secret == "secret1"
NewSecret == "secret2"

ForgedPayload == [userId |-> 1, username |-> Alice, email |-> "a@x.org", role |-> "admin"]

\* a header without the Bearer prefix, an empty token, a token signed with
\* another key, an expired token and a malformed token
BadHeaders ==
    {NoHeader,
     [present |-> TRUE, prefix |-> "Basic ", rest |-> Some(generateToken(ForgedPayload))],
     [present |-> TRUE, prefix |-> "Bearer ", rest |-> None],
     Bearer([generateToken(ForgedPayload) EXCEPT !.key = "another-key"]),
     Bearer([generateToken(ForgedPayload) EXCEPT !.live = FALSE]),
     Bearer([generateToken(ForgedPayload) EXCEPT !.wellFormed = FALSE])}

RegisterBody(username, email, password, role) ==
    [username |-> Some(username), email |-> Some(email), password |-> Some(password),
     role |-> role]

\* alice is an editor, bob an editor or an admin
TwoUsers ==
    {RegisterBody(Alice, "a@x.org", Secret, None),
     RegisterBody(Bob, "b@x.org", Secret, None),
     RegisterBody(Bob, "b@x.org", Secret, Some("admin"))}

EditorAndAdmin ==
    {RegisterBody(Alice, "a@x.org", Secret, None),
     RegisterBody(Bob, "b@x.org", Secret, Some("admin"))}

\* every combination of good and bad fields
AllRegisterBodies ==
    {[username |-> u, email |-> e, password |-> w, role |-> r] :
        u \in {Some(Alice), Some(Bob), Some("al")},
        e \in {Some("a@x.org"), Some("b@x.org"), Some("not-an-email")},
        w \in {Some(Secret), Some("pw")},
        r \in {None, Some("admin"), Some("root")}}

LoginBodies ==
    {[username |-> u, password |-> w] :
        u \in {Some(Alice), Some(Bob), Some("")},
        w \in {Some(Secret), Some(NewSecret), Some("wrong-password")}}

PasswordBodies ==
    {[currentPassword |-> Some(Secret), newPassword |-> Some(Secret)],
     [currentPassword |-> Some(Secret), newPassword |-> Some(NewSecret)],
     [currentPassword |-> Some(NewSecret), newPassword |-> Some(Secret)],
     [currentPassword |-> Some("wrong-password"), newPassword |-> Some(Secret)],
     [currentPassword |-> Some(Secret), newPassword |-> Some("pw")]}

Hi == <<"h", "i">>
Yo == <<"y", "o">>
Ok3 == <<"o", "k", "-", "3">>

\* a JSON body of the post routes; authorId and id are keys no schema knows
PostBody(title, slug, status, categoryIds) ==
    [title |-> title, slug |-> slug, contentType |-> None, status |-> status,
     categoryIds |-> categoryIds, authorId |-> None, id |-> None]

CategoryBody(name, slug) == [name |-> name, slug |-> slug]

Query(page, limit, status, category) ==
    [page |-> page, limit |-> limit, status |-> status, category |-> category,
     author |-> None, sortOrder |-> "desc"]

CategoryQuery(page, limit) == [page |-> page, limit |-> limit, sortOrder |-> "asc"]

\* a domain with nothing in it; each specification fills in what it sends
NoRequests ==
    [headers |-> {}, registerBodies |-> {}, loginBodies |-> {}, passwordBodies |-> {},
     postBodies |-> {}, postUpdateBodies |-> {}, postIds |-> {},
     categoryBodies |-> {}, categoryUpdateBodies |-> {}, categoryIds |-> {},
     postQueries |-> {}, categoryQueries |-> {}, maxPosts |-> 0, maxCategories |-> 0]

(***************************************************************************)
(* SpecAuth: registration, login, profile and password change, one request *)
(* at a time.                                                              *)
(***************************************************************************)
AuthRequests ==
    [NoRequests EXCEPT !.headers = {NoHeader},
                       !.registerBodies = AllRegisterBodies,
                       !.loginBodies = LoginBodies,
                       !.passwordBodies = PasswordBodies]

NextAuth ==
    \E p \in {1} :
        \/ register(p, AuthRequests)
        \/ login(p, AuthRequests)
        \/ getProfile(p, AuthRequests)
        \/ changePassword(p, AuthRequests)
        \/ changePasswordUpdate(p)
        \/ Respond(p)

SpecAuth == Init /\ [][NextAuth]_vars

(***************************************************************************)
(* Spec: every route of the API with every kind of Authorization header,   *)
(* one request at a time.                                                  *)
(***************************************************************************)
Tech == <<"t", "e", "c", "h">>
NewsSlug == <<"n", "e", "w", "s">>

ApiRequests ==
    [NoRequests EXCEPT
        !.headers = BadHeaders,
        !.registerBodies = EditorAndAdmin,
        !.loginBodies = {[username |-> Some(Alice), password |-> Some(Secret)]},
        !.passwordBodies = {[currentPassword |-> Some(Secret), newPassword |-> Some(Secret)]},
        !.postBodies = {PostBody(Some("Hello"), Some(Hi), None, Some(<<1>>))},
        !.postUpdateBodies = {PostBody(None, Some(Yo), Some("published"), Some(<<1>>))},
        !.postIds = {1},
        !.categoryBodies = {CategoryBody(Some("Tech"), Some(Tech))},
        !.categoryUpdateBodies = {CategoryBody(Some("News"), Some(NewsSlug))},
        !.categoryIds = {1},
        !.postQueries = {Query(None, None, None, None), Query(None, None, None, Some(1))},
        !.categoryQueries = {CategoryQuery(None, None)},
        !.maxPosts = MaxPosts,
        !.maxCategories = MaxCategories]

PostSteps(p) ==
    \/ createPostSelectCategories(p)
    \/ createPostInsert(p)
    \/ createPostInsertCategories(p)
    \/ createPostReadPost(p)
    \/ createPostReadCategories(p)
    \/ getPostReadCategories(p)
    \/ updatePostSelectSlug(p)
    \/ updatePostUpdate(p)
    \/ updatePostDeleteCategories(p)
    \/ updatePostInsertCategories(p)
    \/ updatePostReadPost(p)
    \/ updatePostReadCategories(p)
    \/ deletePostDeleteCategories(p)
    \/ deletePostDelete(p)

CategorySteps(p) ==
    \/ createCategoryInsert(p)
    \/ updateCategorySelectSlug(p)
    \/ updateCategoryUpdate(p)
    \/ deleteCategoryCount(p)
    \/ deleteCategoryDelete(p)

Next ==
    \E p \in {1} :
        \/ register(p, ApiRequests)
        \/ login(p, ApiRequests)
        \/ getProfile(p, ApiRequests)
        \/ changePassword(p, ApiRequests)
        \/ changePasswordUpdate(p)
        \/ createPost(p, ApiRequests)
        \/ getPost(p, ApiRequests)
        \/ updatePost(p, ApiRequests)
        \/ deletePost(p, ApiRequests)
        \/ PostSteps(p)
        \/ createCategory(p, ApiRequests)
        \/ updateCategory(p, ApiRequests)
        \/ deleteCategory(p, ApiRequests)
        \/ getCategory(p, ApiRequests)
        \/ CategorySteps(p)
        \/ getPosts(p, ApiRequests)
        \/ getPostsSelectCategory(p)
        \/ getPostsQuery(p)
        \/ getCategories(p, ApiRequests)
        \/ Respond(p)

Spec == Init /\ [][Next]_vars

(***************************************************************************)
(* SpecPosts: the post routes over two users and two categories, one       *)
(* request at a time.                                                      *)
(***************************************************************************)
PostRequests ==
    [NoRequests EXCEPT
        !.headers = {NoHeader},
        !.registerBodies = TwoUsers,
        !.postBodies = {PostBody(Some("Hello"), Some(Hi), None, c) :
                            c \in {None, Some(<<1>>), Some(<<1, 2>>)}}
                       \cup {PostBody(Some("World"), Some(Yo), Some("published"), None)},
        !.postUpdateBodies =
            {[PostBody(Some("Edited"), Some(Yo), None, None)
                 EXCEPT !.authorId = Some(2), !.id = Some(2)],
             PostBody(Some(""), None, None, Some(<<2>>))}
            \cup {PostBody(None, None, None, Some(c)) :
                    c \in {<<>>, <<2>>, <<1, 2>>, <<1, 1>>}},
        !.postIds = {1, 2},
        !.categoryBodies = {CategoryBody(Some("Tech"), Some(Tech)),
                            CategoryBody(Some("News"), Some(NewsSlug))},
        !.maxPosts = MaxPosts,
        !.maxCategories = MaxCategories]

NextPosts ==
    \E p \in {1} :
        \/ register(p, PostRequests)
        \/ createCategory(p, PostRequests)
        \/ createCategoryInsert(p)
        \/ createPost(p, PostRequests)
        \/ getPost(p, PostRequests)
        \/ updatePost(p, PostRequests)
        \/ deletePost(p, PostRequests)
        \/ PostSteps(p)
        \/ Respond(p)

SpecPosts == Init /\ [][NextPosts]_vars

(***************************************************************************)
(* SpecCategories: the category routes, with posts that use the            *)
(* categories, one request at a time.                                      *)
(***************************************************************************)
CategoryRequests ==
    [NoRequests EXCEPT
        !.headers = {NoHeader},
        !.registerBodies = EditorAndAdmin,
        !.postBodies = {PostBody(Some("Hello"), Some(Hi), None, Some(<<1>>))},
        !.postIds = {1},
        !.categoryBodies = {CategoryBody(Some("Tech"), Some(Tech)),
                            CategoryBody(Some("News"), Some(NewsSlug)),
                            CategoryBody(Some("Tech"), Some(NewsSlug)),
                            CategoryBody(Some(""), Some(Tech))},
        !.categoryUpdateBodies = {CategoryBody(Some("News"), None),
                                  CategoryBody(None, Some(NewsSlug)),
                                  CategoryBody(Some("Tech"), Some(Tech))},
        !.categoryIds = {1, 2},
        !.maxPosts = MaxPosts,
        !.maxCategories = MaxCategories]

NextCategories ==
    \E p \in {1} :
        \/ register(p, CategoryRequests)
        \/ createCategory(p, CategoryRequests)
        \/ updateCategory(p, CategoryRequests)
        \/ deleteCategory(p, CategoryRequests)
        \/ getCategory(p, CategoryRequests)
        \/ CategorySteps(p)
        \/ createPost(p, CategoryRequests)
        \/ createPostSelectCategories(p)
        \/ createPostInsert(p)
        \/ createPostInsertCategories(p)
        \/ createPostReadPost(p)
        \/ createPostReadCategories(p)
        \/ deletePost(p, CategoryRequests)
        \/ deletePostDeleteCategories(p)
        \/ deletePostDelete(p)
        \/ Respond(p)

SpecCategories == Init /\ [][NextCategories]_vars

(***************************************************************************)
(* SpecList: the two listings over up to ListMaxPosts posts and            *)
(* ListMaxCategories categories, one request at a time.                    *)
(***************************************************************************)
S1 == <<"s", "1">>
S2 == <<"s", "2">>
S3 == <<"s", "3">>

ListRequests ==
    [NoRequests EXCEPT
        !.registerBodies = {RegisterBody(Bob, "b@x.org", Secret, Some("admin"))},
        !.postBodies = {PostBody(Some("One"), Some(S1), None, None),
                        PostBody(Some("Two"), Some(S2), Some("published"), Some(<<1>>)),
                        PostBody(Some("Three"), Some(S3), Some("published"), None),
                        PostBody(Some("Four"), Some(Hi), None, Some(<<1>>))},
        !.categoryBodies = {CategoryBody(Some("Tech"), Some(Tech)),
                            CategoryBody(Some("News"), Some(NewsSlug)),
                            CategoryBody(Some("Misc"), Some(S1)),
                            CategoryBody(Some("More"), Some(S2))},
        !.postQueries = {Query(page, limit, status, category) :
                            page \in {None, Some(0), Some(1), Some(2), Some(3)},
                            limit \in {None, Some(0), Some(1), Some(2), Some(101)},
                            status \in {None, Some("published"), Some("draft"), Some("archived")},
                            category \in {None, Some(1), Some(2)}},
        !.categoryQueries = {CategoryQuery(page, limit) :
                                page \in {None, Some(0), Some(1), Some(2), Some(3)},
                                limit \in {None, Some(0), Some(1), Some(2), Some(101)}},
        !.maxPosts = ListMaxPosts,
        !.maxCategories = ListMaxCategories]

NextList ==
    \E p \in {1} :
        \/ register(p, ListRequests)
        \/ createCategory(p, ListRequests)
        \/ createCategoryInsert(p)
        \/ createPost(p, ListRequests)
        \/ createPostSelectCategories(p)
        \/ createPostInsert(p)
        \/ createPostInsertCategories(p)
        \/ createPostReadPost(p)
        \/ createPostReadCategories(p)
        \/ getPosts(p, ListRequests)
        \/ getPostsSelectCategory(p)
        \/ getPostsQuery(p)
        \/ getCategories(p, ListRequests)
        \/ Respond(p)

SpecList == Init /\ [][NextList]_vars

(***************************************************************************)
(* SpecRace: two requests in flight; their statements interleave.          *)
(***************************************************************************)
RaceRequests ==
    [NoRequests EXCEPT
        !.registerBodies = {RegisterBody(Bob, "b@x.org", Secret, Some("admin"))},
        !.postBodies = {PostBody(Some("Hello"), Some(Hi), None, Some(<<1>>)),
                        PostBody(Some("Hello"), Some(Hi), None, None)},
        !.postUpdateBodies = {PostBody(None, Some(Yo), None, Some(<<1>>))},
        !.postIds = {1},
        !.categoryBodies = {CategoryBody(Some("Tech"), Some(Tech))},
        !.categoryIds = {1},
        !.maxPosts = MaxPosts,
        !.maxCategories = MaxCategories]

NextRace ==
    \E p \in Procs :
        \/ register(p, RaceRequests)
        \/ createCategory(p, RaceRequests)
        \/ createCategoryInsert(p)
        \/ createPost(p, RaceRequests)
        \/ createPostSelectCategories(p)
        \/ createPostInsert(p)
        \/ createPostInsertCategories(p)
        \/ createPostReadPost(p)
        \/ createPostReadCategories(p)
        \/ updatePost(p, RaceRequests)
        \/ updatePostSelectSlug(p)
        \/ updatePostUpdate(p)
        \/ updatePostDeleteCategories(p)
        \/ updatePostInsertCategories(p)
        \/ updatePostReadPost(p)
        \/ updatePostReadCategories(p)
        \/ deleteCategory(p, RaceRequests)
        \/ deleteCategoryCount(p)
        \/ deleteCategoryDelete(p)
        \/ Respond(p)

SpecRace == Init /\ [][NextRace]_vars

(***************************************************************************)
(* SpecToken: generateToken and verifyToken on their own.  A slot signs    *)
(* claims, the token ages past its expiry or is damaged on its way back,   *)
(* and verifyToken is applied to what arrives.                             *)
(***************************************************************************)
TokenClaims ==
    [userId : {1, 2}, username : {Alice, Bob}, email : {"a@x.org", "b@x.org"},
     role : userRoleSchema]

\* generateToken(claims)
IssueToken(p) ==
    /\ pc[p] = "idle"
    /\ \E claims \in TokenClaims :
          Arrive(p, Ctx("verifyToken", NoHeader, None, 0, claims, generateToken(claims)))
    /\ Goto(p, "token:issued")
    /\ UNCHANGED <<tables, counters, foreignKeys>>

\* the holder's copy of the token changes: d maps the token to the damaged one
DamageToken(p, damaged) ==
    /\ pc[p] = "token:issued"
    /\ ctx' = [ctx EXCEPT ![p].data = damaged]
    /\ UNCHANGED <<tables, counters, foreignKeys, pc, resp, pre>>

\* more than JWT_EXPIRES_IN passes
ExpireToken(p) == DamageToken(p, [ctx[p].data EXCEPT !.live = FALSE])

\* the role in the payload is rewritten and the signature kept
TamperToken(p) ==
    DamageToken(p, [ctx[p].data EXCEPT
                       !.payload.role = IF @ = "admin" THEN "editor" ELSE "admin"])

\* the token is signed again with a secret that is not the server's
ForeignSecretToken(p) ==
    DamageToken(p, [ctx[p].data EXCEPT !.key = "another-key", !.signed = ctx[p].data.payload])

\* the string is cut so that it is no JWT
MalformToken(p) == DamageToken(p, [ctx[p].data EXCEPT !.wellFormed = FALSE])

\* verifyToken(token)
VerifyToken(p) ==
    /\ pc[p] = "token:issued"
    /\ Reply(p, [status |-> 0, value |-> verifyToken(ctx[p].data)])
    /\ UNCHANGED <<tables, counters, foreignKeys, ctx, pre>>

NextToken ==
    \E p \in {1} :
        \/ IssueToken(p)
        \/ ExpireToken(p)
        \/ TamperToken(p)
        \/ ForeignSecretToken(p)
        \/ MalformToken(p)
        \/ VerifyToken(p)
        \/ Respond(p)

SpecToken == Init /\ [][NextToken]_vars

(***************************************************************************)
(* SpecSlug: validateSlug on every short string over an alphabet with      *)
(* letters, digits, the hyphen, capitals, the space and the underscore,    *)
(* and the creates and updates of posts and categories with good and bad   *)
(* slugs, one request at a time.                                           *)
(***************************************************************************)
SlugAlphabet == {"a", "z", "0", "9", "-", "A", "Z", " ", "_"}

SlugInputs == UNION {[1..n -> SlugAlphabet] : n \in 0..MaxSlugLen}

\* "", "Hi", "h i", "h_i" and "-9z" beside the slug "hi"
SlugSamples ==
    {<<>>, <<"H", "i">>, <<"h", " ", "i">>, <<"h", "_", "i">>, <<"-", "9", "z">>, Hi}

\* validateSlug(slug)
ValidateSlug(p) ==
    /\ pc[p] = "idle"
    /\ \E slug \in SlugInputs :
          /\ Arrive(p, Ctx("validateSlug", NoHeader, None, 0, slug, None))
          /\ Reply(p, [status |-> 0, value |-> validateSlug(slug)])
    /\ UNCHANGED <<tables, counters, foreignKeys>>

SlugRequests ==
    [NoRequests EXCEPT
        !.headers = {NoHeader},
        !.registerBodies = EditorAndAdmin,
        !.postBodies = {PostBody(Some("Hello"), Some(s), None, None) : s \in SlugSamples},
        !.postUpdateBodies = {PostBody(None, Some(s), None, Some(<<1>>)) : s \in SlugSamples},
        !.postIds = {1},
        !.categoryBodies = {CategoryBody(Some("Tech"), Some(s)) : s \in SlugSamples},
        !.categoryUpdateBodies = {CategoryBody(None, Some(s)) : s \in SlugSamples},
        !.categoryIds = {1},
        !.maxPosts = MaxPosts,
        !.maxCategories = MaxCategories]

NextSlug ==
    \E p \in {1} :
        \/ ValidateSlug(p)
        \/ register(p, SlugRequests)
        \/ createPost(p, SlugRequests)
        \/ createPostInsert(p)
        \/ createPostReadPost(p)
        \/ createPostReadCategories(p)
        \/ updatePost(p, SlugRequests)
        \/ updatePostSelectSlug(p)
        \/ updatePostUpdate(p)
        \/ updatePostDeleteCategories(p)
        \/ updatePostInsertCategories(p)
        \/ updatePostReadPost(p)
        \/ updatePostReadCategories(p)
        \/ createCategory(p, SlugRequests)
        \/ createCategoryInsert(p)
        \/ updateCategory(p, SlugRequests)
        \/ updateCategorySelectSlug(p)
        \/ updateCategoryUpdate(p)
        \/ Respond(p)

SpecSlug == Init /\ [][NextSlug]_vars

(***************************************************************************)
(* SpecValidation: register, login and the listing of posts with bodies    *)
(* and query strings that keep and that break the schemas, one request at  *)
(* a time.                                                                 *)
(***************************************************************************)
ValidationRequests ==
    [NoRequests EXCEPT
        !.headers = {NoHeader},
        !.registerBodies = AllRegisterBodies,
        !.loginBodies = LoginBodies \cup {[username |-> Some(Alice), password |-> Some("")]},
        !.postQueries = {Query(page, limit, status, None) :
                            page \in {None, Some(-1), Some(0), Some(1)},
                            limit \in {None, Some(0), Some(100), Some(101)},
                            status \in {None, Some("published"), Some("archived")}}]

NextValidation ==
    \E p \in {1} :
        \/ register(p, ValidationRequests)
        \/ login(p, ValidationRequests)
        \/ getPosts(p, ValidationRequests)
        \/ getPostsQuery(p)
        \/ Respond(p)

SpecValidation == Init /\ [][NextValidation]_vars

(***************************************************************************)
(* SpecRouter: the dispatch of a request by method and path.  A path is    *)
(* the sequence of its segments; the routes are tried in the order of      *)
(* their registration, the catch-all last.                                 *)
(***************************************************************************)
\* Router({ base: "/api/v1" })
RouterBase == <<"api", "v1">>

\* router.get(...), router.post(...), ..., router.all("*", ...) in order
Routes ==
    <<[method |-> "GET", path |-> <<"health">>, handler |-> "GET /health"],
      [method |-> "POST", path |-> <<"auth", "register">>, handler |-> "POST /auth/register"],
      [method |-> "POST", path |-> <<"auth", "login">>, handler |-> "POST /auth/login"],
      [method |-> "GET", path |-> <<"profile">>, handler |-> "GET /profile"],
      [method |-> "POST", path |-> <<"profile", "change-password">>,
       handler |-> "POST /profile/change-password"],
      [method |-> "GET", path |-> <<"posts">>, handler |-> "GET /posts"],
      [method |-> "GET", path |-> <<"posts", ":id">>, handler |-> "GET /posts/:id"],
      [method |-> "POST", path |-> <<"posts">>, handler |-> "POST /posts"],
      [method |-> "PATCH", path |-> <<"posts", ":id">>, handler |-> "PATCH /posts/:id"],
      [method |-> "DELETE", path |-> <<"posts", ":id">>, handler |-> "DELETE /posts/:id"],
      [method |-> "GET", path |-> <<"categories">>, handler |-> "GET /categories"],
      [method |-> "GET", path |-> <<"categories", ":id">>, handler |-> "GET /categories/:id"],
      [method |-> "POST", path |-> <<"categories">>, handler |-> "POST /categories"],
      [method |-> "PATCH", path |-> <<"categories", ":id">>,
       handler |-> "PATCH /categories/:id"],
      [method |-> "DELETE", path |-> <<"categories", ":id">>,
       handler |-> "DELETE /categories/:id"],
      [method |-> "ALL", path |-> <<"*">>, handler |-> "*"]>>

\* the pattern of a route, under the base, matches the path: a segment
\* ":id" matches any one segment, "*" any rest
PathMatches(pattern, path) ==
    IF Len(path) < Len(RouterBase) \/ SubSeq(path, 1, Len(RouterBase)) # RouterBase THEN FALSE
    ELSE LET rest == SubSeq(path, Len(RouterBase) + 1, Len(path))
         IN  \/ pattern = <<"*">>
             \/ /\ Len(rest) = Len(pattern)
                /\ \A i \in DOMAIN pattern : pattern[i] = ":id" \/ pattern[i] = rest[i]

\* the dispatch that ignores the method of the request
RouteMatches_AnyMethod(route, request) == PathMatches(route.path, request.path)

RouteMatches(route, request) ==
    /\ route.method \in {request.method, "ALL"}
    /\ PathMatches(route.path, request.path)

\* the handler of the first route that matches, "none" when none does
RECURSIVE Dispatch(_, _)
Dispatch(i, request) ==
    IF i > Len(Routes) THEN "none"
    ELSE IF RouteMatches(Routes[i], request) THEN Routes[i].handler
    ELSE Dispatch(i + 1, request)

RouteNotFound == createAPIResponse(FALSE, "Route not found", None, None, 404)

HttpMethods == {"GET", "POST", "PUT", "PATCH", "DELETE"}

HttpPaths ==
    {<<>>, <<"api">>, <<"api", "v1">>, <<"api", "v2", "health">>, <<"health">>,
     <<"api", "v1", "health">>, <<"api", "v1", "nonexistent">>,
     <<"api", "v1", "auth", "register">>, <<"api", "v1", "auth", "login">>,
     <<"api", "v1", "auth", "logout">>, <<"api", "v1", "profile">>,
     <<"api", "v1", "profile", "change-password">>,
     <<"api", "v1", "posts">>, <<"api", "v1", "posts", "1">>,
     <<"api", "v1", "posts", "1", "comments">>,
     <<"api", "v1", "categories">>, <<"api", "v1", "categories", "1">>,
     <<"posts">>, <<"api", "v1", "users">>}

\* fetch: router.fetch(request) finds the route; the catch-all and, when no
\* route at all matches, fetch itself answer 404.  A request that matches a
\* registered route is handed to its handlers, which the other
\* specifications follow.
routerFetch(p) ==
    /\ pc[p] = "idle"
    /\ \E method \in HttpMethods, path \in HttpPaths :
          LET request == [method |-> method, path |-> path]
              handler == Dispatch(1, request)
          IN  /\ Arrive(p, Ctx("fetch", NoHeader, None, 0, request, handler))
              /\ IF handler \in {"*", "none"} THEN Reply(p, RouteNotFound)
                 ELSE Reply(p, NoResponse)
    /\ UNCHANGED <<tables, counters, foreignKeys>>

NextRouter ==
    \E p \in Procs :
        \/ routerFetch(p)
        \/ Respond(p)

SpecRouter == Init /\ [][NextRouter]_vars

(***************************************************************************)
(* SpecRacePosts: two post requests in flight on one post; their           *)
(* statements interleave.                                                  *)
(***************************************************************************)
RacePostRequests ==
    [NoRequests EXCEPT
        !.registerBodies = {RegisterBody(Bob, "b@x.org", Secret, Some("admin"))},
        !.postBodies = {PostBody(Some("Hello"), Some(Hi), None, Some(<<1>>))},
        !.postUpdateBodies = {PostBody(None, None, None, Some(<<1>>)),
                              PostBody(None, None, None, Some(<<2>>))},
        !.postIds = {1},
        !.categoryBodies = {CategoryBody(Some("Tech"), Some(Tech)),
                            CategoryBody(Some("News"), Some(NewsSlug))},
        !.maxPosts = MaxPosts,
        !.maxCategories = MaxCategories]

NextRacePosts ==
    \E p \in Procs :
        \/ register(p, RacePostRequests)
        \/ createCategory(p, RacePostRequests)
        \/ createCategoryInsert(p)
        \/ createPost(p, RacePostRequests)
        \/ createPostSelectCategories(p)
        \/ createPostInsert(p)
        \/ createPostInsertCategories(p)
        \/ createPostReadPost(p)
        \/ createPostReadCategories(p)
        \/ updatePost(p, RacePostRequests)
        \/ updatePostUpdate(p)
        \/ updatePostDeleteCategories(p)
        \/ updatePostInsertCategories(p)
        \/ updatePostReadPost(p)
        \/ updatePostReadCategories(p)
        \/ deletePost(p, RacePostRequests)
        \/ deletePostDeleteCategories(p)
        \/ deletePostDelete(p)
        \/ Respond(p)

SpecRacePosts == Init /\ [][NextRacePosts]_vars

(***************************************************************************)
(* SpecRaceSlug: two creations in flight that carry one slug; nothing      *)
(* deletes or renames a row.                                               *)
(***************************************************************************)
RaceSlugRequests ==
    [NoRequests EXCEPT
        !.registerBodies = {RegisterBody(Bob, "b@x.org", Secret, Some("admin"))},
        !.postBodies = {PostBody(Some("Hello"), Some(Hi), None, None),
                        PostBody(Some("World"), Some(Hi), None, None)},
        !.categoryBodies = {CategoryBody(Some("Tech"), Some(Tech)),
                            CategoryBody(Some("News"), Some(Tech))},
        !.maxPosts = MaxPosts,
        !.maxCategories = MaxCategories]

NextRaceSlug ==
    \E p \in Procs :
        \/ register(p, RaceSlugRequests)
        \/ createCategory(p, RaceSlugRequests)
        \/ createCategoryInsert(p)
        \/ createPost(p, RaceSlugRequests)
        \/ createPostInsert(p)
        \/ createPostReadPost(p)
        \/ createPostReadCategories(p)
        \/ Respond(p)

SpecRaceSlug == Init /\ [][NextRaceSlug]_vars

(***************************************************************************)
(* SpecPatch: partial updates of a published html post and of a category,  *)
(* by an admin, one request at a time.                                     *)
(***************************************************************************)
PatchRequests ==
    [NoRequests EXCEPT
        !.headers = {NoHeader},
        !.registerBodies = {RegisterBody(Bob, "b@x.org", Secret, Some("admin"))},
        !.postBodies = {[PostBody(Some("World"), Some(Yo), Some("published"), None)
                            EXCEPT !.contentType = Some("html")],
                        PostBody(Some("Hello"), Some(Hi), None, None)},
        !.postUpdateBodies =
            {PostBody(Some("Edited"), None, None, None),
             PostBody(None, Some(Hi), None, None),
             PostBody(None, None, Some("draft"), None),
             PostBody(None, None, Some("published"), None),
             [PostBody(None, None, None, None) EXCEPT !.contentType = Some("html")],
             PostBody(None, None, None, None)},
        !.postIds = {1, 2},
        !.categoryBodies = {CategoryBody(Some("Tech"), Some(Tech))},
        !.categoryUpdateBodies = {CategoryBody(Some("News"), None),
                                  CategoryBody(None, Some(NewsSlug)),
                                  CategoryBody(None, None)},
        !.categoryIds = {1},
        !.maxPosts = MaxPosts,
        !.maxCategories = MaxCategories]

NextPatch ==
    \E p \in {1} :
        \/ register(p, PatchRequests)
        \/ createCategory(p, PatchRequests)
        \/ createCategoryInsert(p)
        \/ updateCategory(p, PatchRequests)
        \/ updateCategorySelectSlug(p)
        \/ updateCategoryUpdate(p)
        \/ createPost(p, PatchRequests)
        \/ createPostInsert(p)
        \/ createPostReadPost(p)
        \/ createPostReadCategories(p)
        \/ updatePost(p, PatchRequests)
        \/ updatePostSelectSlug(p)
        \/ updatePostUpdate(p)
        \/ updatePostReadPost(p)
        \/ updatePostReadCategories(p)
        \/ Respond(p)

SpecPatch == Init /\ [][NextPatch]_vars

(***************************************************************************)
(* FairSpec: every route over requests that reach each status the          *)
(* controllers produce, one request at a time.  Each awaited statement of  *)
(* bun:sqlite returns or throws, so a handler that has a step left takes   *)
(* it: weak fairness of the next-state relation.                           *)
(***************************************************************************)
LiveRequests ==
    [NoRequests EXCEPT
        !.headers = {NoHeader,
                     Bearer([generateToken(ForgedPayload) EXCEPT !.key = "another-key"])},
        !.registerBodies = EditorAndAdmin \cup
                           {[username |-> Some("al"), email |-> Some("a@x.org"),
                             password |-> Some(Secret), role |-> None]},
        !.loginBodies = {[username |-> Some(Alice), password |-> w] :
                            w \in {Some(Secret), Some("wrong-password")}},
        !.passwordBodies = {[currentPassword |-> Some(Secret), newPassword |-> Some(Secret)]},
        !.postBodies = {PostBody(Some("Hello"), Some(Hi), None, Some(<<1>>))},
        !.postUpdateBodies = {PostBody(None, Some(Yo), Some("published"), Some(<<1>>)),
                              PostBody(None, None, None, Some(<<1, 1>>))},
        !.postIds = {1},
        !.categoryBodies = {CategoryBody(Some("Tech"), Some(Tech)),
                            CategoryBody(Some("Tech"), Some(NewsSlug))},
        !.categoryUpdateBodies = {CategoryBody(Some("News"), Some(NewsSlug))},
        !.categoryIds = {1},
        !.postQueries = {Query(None, None, None, None), Query(None, None, None, Some(1))},
        !.categoryQueries = {CategoryQuery(None, None)},
        !.maxPosts = MaxPosts,
        !.maxCategories = MaxCategories]

NextLive ==
    \E p \in {1} :
        \/ register(p, LiveRequests)
        \/ login(p, LiveRequests)
        \/ getProfile(p, LiveRequests)
        \/ changePassword(p, LiveRequests)
        \/ changePasswordUpdate(p)
        \/ createPost(p, LiveRequests)
        \/ getPost(p, LiveRequests)
        \/ updatePost(p, LiveRequests)
        \/ deletePost(p, LiveRequests)
        \/ PostSteps(p)
        \/ createCategory(p, LiveRequests)
        \/ updateCategory(p, LiveRequests)
        \/ deleteCategory(p, LiveRequests)
        \/ getCategory(p, LiveRequests)
        \/ CategorySteps(p)
        \/ getPosts(p, LiveRequests)
        \/ getPostsSelectCategory(p)
        \/ getPostsQuery(p)
        \/ getCategories(p, LiveRequests)
        \/ Respond(p)

FairSpec == Init /\ [][NextLive]_vars /\ WF_vars(NextLive)

(***************************************************************************)
(* What the claims speak of.                                               *)
(***************************************************************************)
\* slot p has run the handler of route to its response
Done(p, route) == pc[p] = "done" /\ ctx[p].route = route

\* C4: a register call whose username or email belongs to a stored user is
\* answered 409 and adds no row, and no two rows of users ever share a
\* username or an email.
C4_DuplicateUserRejected ==
    /\ \A p \in Procs :
          (/\ Done(p, "POST /auth/register")
           /\ insertUserSchema(ctx[p].body).issues = <<>>
           /\ \E u \in pre[p].users : \/ u.username = Val(ctx[p].body.username)
                                      \/ u.email = Val(ctx[p].body.email))
          => (resp[p].status = 409 /\ users = pre[p].users)
    /\ \A u, v \in users : (u.username = v.username \/ u.email = v.email) => u = v

\* a second user's email is refused for a fresh username
C4_Witness ==
    \E p \in Procs :
        /\ Done(p, "POST /auth/register")
        /\ resp[p].status = 409
        /\ users # {}
        /\ ~\E u \in users : u.username = Val(ctx[p].body.username)
        /\ \E u \in users : u.email = Val(ctx[p].body.email)

\* the token of a header that authenticates, if the header has one
TokenOf(h) ==
    IF h.present /\ h.prefix = "Bearer " /\ Has(h.rest) THEN verifyToken(Val(h.rest))
    ELSE None

RoleOf(h) == IF Has(TokenOf(h)) THEN Val(TokenOf(h)).role ELSE "none"

CategoryMutations == {"POST /categories", "PATCH /categories/:id", "DELETE /categories/:id"}

ProtectedRoutes ==
    {"GET /profile", "POST /profile/change-password", "POST /posts", "PATCH /posts/:id",
     "DELETE /posts/:id"} \cup CategoryMutations

RowsOfPost(rows, id) == {r \in rows : r.postId = id}

\* a PATCH /posts/:id that nothing but the ownership rule can stop: the body
\* passes the schema, its slug is free, its category ids are distinct and,
\* where the store enforces references, exist
ValidPatch(p) ==
    LET body == ctx[p].body
    IN  /\ postUpdateSchema(body).issues = <<>>
        /\ Has(body.slug) =>
              ~\E q \in pre[p].posts : q.id # ctx[p].id /\ q.slug = Val(body.slug)
        /\ Has(body.categoryIds) =>
              /\ Cardinality(Range(Val(body.categoryIds))) = Len(Val(body.categoryIds))
              /\ foreignKeys =>
                    \A i \in DOMAIN Val(body.categoryIds) :
                        \E c \in pre[p].categories : c.id = Val(body.categoryIds)[i]

\* C1: PATCH and DELETE of an existing post succeed for the post's author
\* and for an admin; for any other caller they return 403 and leave the post
\* row and its category associations as they were.
C1_OwnerOrAdmin ==
    \A p \in Procs :
        (/\ pc[p] = "done"
         /\ ctx[p].route \in {"PATCH /posts/:id", "DELETE /posts/:id"}
         /\ Has(ctx[p].user)
         /\ ctx[p].route = "PATCH /posts/:id" => ValidPatch(p))
        => \A q \in pre[p].posts :
              q.id = ctx[p].id =>
                 IF q.authorId = Val(ctx[p].user).id \/ Val(ctx[p].user).role = "admin"
                 THEN resp[p].status = 200 /\ resp[p].success
                 ELSE /\ resp[p].status = 403
                      /\ posts = pre[p].posts
                      /\ postCategories = pre[p].postCategories

\* an editor is refused the update of another editor's post, which has categories
C1_Witness ==
    \E p \in Procs :
        /\ Done(p, "PATCH /posts/:id")
        /\ resp[p].status = 403
        /\ Has(ctx[p].body.categoryIds)
        /\ RowsOfPost(postCategories, ctx[p].id) # {}

C2_EditorRefused ==
    \A p \in Procs :
        (/\ pc[p] = "done"
         /\ ctx[p].route \in CategoryMutations
         /\ RoleOf(ctx[p].header) = "editor")
        => /\ resp[p].status = 403
           /\ resp[p].message = Some("Admin access required")
           /\ categories = pre[p].categories

C2_ChangedByAdmin ==
    categories' # categories =>
        \E p \in Procs : ctx[p].route \in CategoryMutations /\ RoleOf(ctx[p].header) = "admin"

\* C2: a category mutation requested with an editor's token returns 403
\* 'Admin access required' and leaves table categories unchanged; every step
\* that changes the table belongs to a request made with an admin's token.
C2_CategoriesAdminOnly == []C2_EditorRefused /\ [][C2_ChangedByAdmin]_vars

\* an editor's POST /categories is refused while no category exists
C2_Witness ==
    \E p \in Procs :
        /\ Done(p, "POST /categories")
        /\ RoleOf(ctx[p].header) = "editor"
        /\ resp[p].status = 403

\* C3: a protected route requested without a header, without the Bearer
\* prefix or with a token that fails verification answers 401 from the
\* authentication middleware (never the admin check's 403, never the
\* controller) and changes no table.
C3_Unauthenticated401 ==
    \A p \in Procs :
        (/\ pc[p] = "done"
         /\ ctx[p].route \in ProtectedRoutes
         /\ ~Has(TokenOf(ctx[p].header)))
        => /\ resp[p].status = 401
           /\ resp[p].message \in {Some("Access token required"),
                                   Some("Invalid or expired token")}
           /\ ~Has(ctx[p].user)
           /\ Tables = pre[p]

\* an expired token that claims role admin is refused on DELETE /categories/:id
\* of an existing category
C3_Witness ==
    \E p \in Procs :
        /\ Done(p, "DELETE /categories/:id")
        /\ ctx[p].header.present
        /\ ctx[p].header.prefix = "Bearer "
        /\ Has(ctx[p].header.rest)
        /\ ~Val(ctx[p].header.rest).live
        /\ Val(ctx[p].header.rest).payload.role = "admin"
        /\ \E c \in categories : c.id = ctx[p].id
        /\ resp[p].status = 401

\* the create or update of slot p would break a UNIQUE clause of its table
UniqueViolation(p) ==
    LET body == ctx[p].body
        route == ctx[p].route
    IN  \/ /\ route = "POST /categories"
           /\ insertCategorySchema(body).issues = <<>>
           /\ \E c \in pre[p].categories : c.name = Val(body.name) \/ c.slug = Val(body.slug)
        \/ /\ route = "PATCH /categories/:id"
           /\ categoryUpdateSchema(body).issues = <<>>
           /\ \E c \in pre[p].categories : c.id = ctx[p].id
           /\ \E c \in pre[p].categories :
                 /\ c.id # ctx[p].id
                 /\ \/ Has(body.name) /\ c.name = Val(body.name)
                    \/ Has(body.slug) /\ c.slug = Val(body.slug)
        \/ /\ route = "POST /posts"
           /\ insertPostSchema(body).issues = <<>>
           /\ \E q \in pre[p].posts : q.slug = Val(body.slug)

\* C5 as claimed: a create or update that would break a unique constraint is
\* answered 409, never 500.
C5_ConflictIs409 ==
    \A p \in Procs :
        (/\ pc[p] = "done"
         /\ ctx[p].route \in {"POST /categories", "PATCH /categories/:id", "POST /posts"}
         /\ RoleOf(ctx[p].header) = "admin"
         /\ UniqueViolation(p))
        => resp[p].status = 409

\* C6: DELETE /categories/:id by an admin on an existing category returns
\* 400 'Cannot delete category with associated posts' and keeps the row when
\* a PostCategory row references it, and otherwise deletes the row and
\* returns success.
C6_DeleteCategoryGuard ==
    \A p \in Procs :
        (/\ Done(p, "DELETE /categories/:id")
         /\ RoleOf(ctx[p].header) = "admin"
         /\ \E c \in pre[p].categories : c.id = ctx[p].id)
        => IF \E r \in pre[p].postCategories : r.categoryId = ctx[p].id
           THEN /\ resp[p].status = 400
                /\ resp[p].message = Some("Cannot delete category with associated posts")
                /\ categories = pre[p].categories
           ELSE /\ resp[p].status = 200
                /\ resp[p].success
                /\ categories = {c \in pre[p].categories : c.id # ctx[p].id}

\* the delete of a category that a post uses is refused
C6_Witness ==
    \E p \in Procs :
        /\ Done(p, "DELETE /categories/:id")
        /\ resp[p].status = 400
        /\ \E r \in postCategories : r.categoryId = ctx[p].id
        /\ \E c \in categories : c.id = ctx[p].id

\* C7 as claimed: under every interleaving of deleteCategory with createPost
\* and updatePost, no reachable state holds a PostCategory row whose category
\* (an id that was handed out) is no longer in table categories.
C7_NoRowOfDeletedCategory ==
    \A r \in postCategories :
        r.categoryId < nextCategoryId => \E c \in categories : c.id = r.categoryId

C8_DeletedPostIsGone ==
    \A p \in Procs :
        /\ (Done(p, "DELETE /posts/:id") /\ resp[p].status = 200)
           => /\ ~\E q \in posts : q.id = ctx[p].id
              /\ RowsOfPost(postCategories, ctx[p].id) = {}
        /\ (Done(p, "GET /posts/:id") /\ ~\E q \in pre[p].posts : q.id = ctx[p].id)
           => resp[p].status = 404

C8_AssociationsFirst ==
    \A q \in posts :
        (~\E n \in posts' : n.id = q.id) => RowsOfPost(postCategories, q.id) = {}

\* C8: deletePost removes the post's PostCategory rows before the post row;
\* after its success neither the post row nor a PostCategory row of that
\* post exists, and GET /posts/:id of a post that does not exist returns 404.
C8_DeletePostOrder == []C8_DeletedPostIsGone /\ [][C8_AssociationsFirst]_vars

\* a post that had categories was deleted
C8_Witness ==
    \E p \in Procs :
        /\ Done(p, "DELETE /posts/:id")
        /\ resp[p].status = 200
        /\ RowsOfPost(pre[p].postCategories, ctx[p].id) # {}

\* C9: after a successful updatePost with categoryIds = L the post's
\* PostCategory rows are one row per id of L, whatever they were; without
\* categoryIds they are unchanged.
C9_CategoriesReplaced ==
    \A p \in Procs :
        (Done(p, "PATCH /posts/:id") /\ resp[p].status = 200)
        => IF Has(ctx[p].body.categoryIds)
           THEN LET L == Val(ctx[p].body.categoryIds)
                IN  /\ RowsOfPost(postCategories, ctx[p].id)
                         = {[postId |-> ctx[p].id, categoryId |-> L[i]] : i \in DOMAIN L}
                    /\ Cardinality(RowsOfPost(postCategories, ctx[p].id)) = Len(L)
           ELSE RowsOfPost(postCategories, ctx[p].id)
                   = RowsOfPost(pre[p].postCategories, ctx[p].id)

\* a post in categories 1 and 2 was moved to category 2 alone
C9_Witness ==
    \E p \in Procs :
        /\ Done(p, "PATCH /posts/:id")
        /\ resp[p].status = 200
        /\ ctx[p].body.categoryIds = Some(<<2>>)
        /\ Cardinality(RowsOfPost(pre[p].postCategories, ctx[p].id)) = 2

PageOf(query) == IF Has(query.page) THEN Val(query.page) ELSE 1
LimitOf(query) == IF Has(query.limit) THEN Val(query.limit) ELSE 10

\* the posts that the filters of a query keep
Matching(query, t) ==
    {q \in t.posts :
        /\ Has(query.status) => q.status = Val(query.status)
        /\ Has(query.category) =>
              \E r \in t.postCategories :
                  r.postId = q.id /\ r.categoryId = Val(query.category)}

Paginated(r, total, page, limit) ==
    /\ r.status = 200
    /\ Has(r.pagination)
    /\ Val(r.pagination).total = total
    /\ Val(r.pagination).totalPages * limit >= total
    /\ (Val(r.pagination).totalPages - 1) * limit < total
    /\ Len(r.data) = Min(limit, Max(0, total - (page - 1) * limit))

\* C10: GET /posts and GET /categories with page >= 1 and limit in 1..100
\* report as total the number of stored rows that match the filters, as
\* totalPages ceil(total / limit), and return
\* min(limit, max(0, total - (page - 1) * limit)) rows.
C10_Pagination ==
    \A p \in Procs :
        (/\ pc[p] = "done"
         /\ ctx[p].route \in {"GET /posts", "GET /categories"}
         /\ PageOf(ctx[p].body) >= 1
         /\ LimitOf(ctx[p].body) \in 1..100
         /\ ctx[p].route = "GET /posts" =>
               (Has(ctx[p].body.status) => Val(ctx[p].body.status) \in {"draft", "published"}))
        => Paginated(resp[p],
                     IF ctx[p].route = "GET /posts"
                     THEN Cardinality(Matching(ctx[p].body, pre[p]))
                     ELSE Cardinality(pre[p].categories),
                     PageOf(ctx[p].body), LimitOf(ctx[p].body))

\* limit=2 over three posts returns two rows on page 1
C10_Witness ==
    \E p \in Procs :
        /\ Done(p, "GET /posts")
        /\ ctx[p].body.limit = Some(2)
        /\ ctx[p].body.page = Some(1)
        /\ ~Has(ctx[p].body.status)
        /\ ~Has(ctx[p].body.category)
        /\ Cardinality(posts) = 3
        /\ resp[p].status = 200
        /\ Len(resp[p].data) = 2

\* C11: GET /posts with status=s (published or draft) returns only posts of
\* status s, each of them a stored post of that status, and without further
\* filters pagination.total is the number of stored posts of status s.
C11_StatusFilter ==
    \A p \in Procs :
        (/\ Done(p, "GET /posts")
         /\ Has(ctx[p].body.status)
         /\ Val(ctx[p].body.status) \in {"published", "draft"}
         /\ resp[p].status = 200)
        => /\ \A i \in DOMAIN resp[p].data :
                 /\ resp[p].data[i].status = Val(ctx[p].body.status)
                 /\ \E q \in pre[p].posts :
                       q.id = resp[p].data[i].id /\ q.status = Val(ctx[p].body.status)
           /\ (~Has(ctx[p].body.category) /\ ~Has(ctx[p].body.author))
              => Val(resp[p].pagination).total
                    = Cardinality({q \in pre[p].posts : q.status = Val(ctx[p].body.status)})

\* published posts are listed out of a store that also holds drafts
C11_Witness ==
    \E p \in Procs :
        /\ Done(p, "GET /posts")
        /\ ctx[p].body.status = Some("published")
        /\ ~Has(ctx[p].body.category)
        /\ resp[p].status = 200
        /\ Len(resp[p].data) = 2
        /\ Val(resp[p].pagination).total = 2
        /\ \E q \in posts : q.status = "draft"

\* C12: verifyToken(generateToken(claims)) returns the userId, username,
\* email and role of claims while the token is unexpired, and verifyToken
\* returns null for an expired token, for a token whose payload no longer
\* matches its signature, for one signed with another secret and for a
\* malformed string.
C12_TokenRoundTrip ==
    \A p \in Procs :
        Done(p, "verifyToken") =>
            LET claims == ctx[p].body
                token == ctx[p].data
                result == resp[p].value
            IN  /\ token = generateToken(claims)
                   => /\ Has(result)
                      /\ Val(result).userId = claims.userId
                      /\ Val(result).username = claims.username
                      /\ Val(result).email = claims.email
                      /\ Val(result).role = claims.role
                /\ (\/ ~token.live
                    \/ ~token.wellFormed
                    \/ token.key # JWT_SECRET
                    \/ token.payload.role # claims.role)
                   => result = None

\* an editor's token whose role was rewritten to admin, still unexpired and
\* carrying the server's signature, was verified
C12_Witness ==
    \E p \in Procs :
        /\ Done(p, "verifyToken")
        /\ ctx[p].body.role = "editor"
        /\ ctx[p].data.payload.role = "admin"
        /\ ctx[p].data.key = JWT_SECRET
        /\ ctx[p].data.live
        /\ ctx[p].data.wellFormed
        /\ resp[p].value = None

LowerCaseLetters ==
    {"a", "b", "c", "d", "e", "f", "g", "h", "i", "j", "k", "l", "m",
     "n", "o", "p", "q", "r", "s", "t", "u", "v", "w", "x", "y", "z"}

Digits == {"0", "1", "2", "3", "4", "5", "6", "7", "8", "9"}

\* s is non-empty and made of lowercase letters, digits and hyphens
WellFormedSlug(s) == s # <<>> /\ Range(s) \subseteq LowerCaseLetters \cup Digits \cup {"-"}

SlugRoutes == {"POST /posts", "PATCH /posts/:id", "POST /categories", "PATCH /categories/:id"}

\* C13: validateSlug(s) is true exactly when s is non-empty and made of
\* lowercase letters, digits and hyphens; a create or update of a post or a
\* category by a caller the middleware admits, whose body carries a slug
\* that fails the test, is answered 400 and leaves every table unchanged.
C13_SlugFormat ==
    \A p \in Procs :
        /\ Done(p, "validateSlug") => (resp[p].value <=> WellFormedSlug(ctx[p].body))
        /\ (/\ pc[p] = "done"
            /\ ctx[p].route \in SlugRoutes
            /\ Has(ctx[p].user)
            /\ ctx[p].route \in CategoryMutations => Val(ctx[p].user).role = "admin"
            /\ Has(ctx[p].body.slug)
            /\ ~WellFormedSlug(Val(ctx[p].body.slug)))
           => resp[p].status = 400 /\ Tables = pre[p]

\* the update of a stored post to the slug "Hi" is refused
C13_Witness ==
    \E p \in Procs :
        /\ Done(p, "PATCH /posts/:id")
        /\ \E q \in posts : q.id = ctx[p].id
        /\ ctx[p].body.slug = Some(<<"H", "i">>)
        /\ resp[p].status = 400

\* the body or query string of slot p breaks the schema of its endpoint
SchemaViolation(p) ==
    LET body == ctx[p].body
    IN  \/ /\ ctx[p].route = "POST /auth/register"
           /\ \/ Len(Val(body.username)) < 3
              \/ Val(body.email) = "not-an-email"
              \/ Len(Val(body.password)) < 6
              \/ Has(body.role) /\ Val(body.role) \notin {"admin", "editor"}
        \/ /\ ctx[p].route = "POST /auth/login"
           /\ Val(body.username) = "" \/ Val(body.password) = ""
        \/ /\ ctx[p].route = "GET /posts"
           /\ \/ Has(body.status) /\ Val(body.status) \notin {"draft", "published"}
              \/ Has(body.page) /\ Val(body.page) < 1
              \/ Has(body.limit) /\ (Val(body.limit) < 1 \/ Val(body.limit) > 100)

\* C14: a register or login body or a posts query string that breaks the
\* endpoint's schema is answered 400 'Validation error' with a non-empty
\* errors list, and no table changes.
C14_ValidationError ==
    \A p \in Procs :
        (pc[p] = "done" /\ SchemaViolation(p))
        => /\ resp[p].status = 400
           /\ ~resp[p].success
           /\ resp[p].message = Some("Validation error")
           /\ Has(resp[p].errors)
           /\ Len(Val(resp[p].errors)) >= 1
           /\ Tables = pre[p]

\* with a user stored, a registration with a two-letter username and a
\* two-letter password is refused with two messages
C14_Witness ==
    \E p \in Procs :
        /\ Done(p, "POST /auth/register")
        /\ ctx[p].body.username = Some("al")
        /\ ctx[p].body.password = Some("pw")
        /\ users # {}
        /\ resp[p].status = 400
        /\ Len(Val(resp[p].errors)) = 2

\* the method and path of the request are those of a registered route
Registered(request) ==
    \/ /\ request.method = "GET"
       /\ request.path \in {<<"api", "v1", "health">>, <<"api", "v1", "profile">>,
                            <<"api", "v1", "posts">>, <<"api", "v1", "categories">>}
    \/ /\ request.method = "POST"
       /\ request.path \in {<<"api", "v1", "auth", "register">>, <<"api", "v1", "auth", "login">>,
                            <<"api", "v1", "profile", "change-password">>,
                            <<"api", "v1", "posts">>, <<"api", "v1", "categories">>}
    \/ /\ request.method \in {"GET", "PATCH", "DELETE"}
       /\ Len(request.path) = 4
       /\ SubSeq(request.path, 1, 3) \in {<<"api", "v1", "posts">>, <<"api", "v1", "categories">>}

\* C15: a request whose method and path match no registered route (unknown
\* path under /api/v1, path outside /api/v1, registered path with another
\* method) is answered 404 {success: false, message: 'Route not found'},
\* is handed to no controller and changes no table.
C15_RouteNotFound ==
    \A p \in Procs :
        (Done(p, "fetch") /\ ~Registered(ctx[p].body))
        => /\ resp[p] = [status |-> 404, success |-> FALSE,
                         message |-> Some("Route not found"), errors |-> None,
                         data |-> None, pagination |-> None]
           /\ ctx[p].data \in {"*", "none"}
           /\ Tables = pre[p]

\* GET /api/v1/auth/register, a registered path with another method
C15_Witness ==
    \E p \in Procs :
        /\ Done(p, "fetch")
        /\ ctx[p].body = [method |-> "GET", path |-> <<"api", "v1", "auth", "register">>]
        /\ resp[p].status = 404

(***************************************************************************)
(* C16.  Every request receives exactly one response; its success field is *)
(* true exactly when its status is 200 or 201; a failure response has      *)
(* success false, a message and a status among 400, 401, 403, 404, 409 and *)
(* 500, and so has the response of the top-level handler to an exception   *)
(* that escapes the router.                                                *)
(***************************************************************************)
FailureStatuses == {400, 401, 403, 404, 409, 500}

UniformResponse(r) ==
    /\ r.success \in BOOLEAN
    /\ r.success <=> r.status \in {200, 201}
    /\ ~r.success => Has(r.message) /\ r.status \in FailureStatuses

\* the messages the driver throws with
DriverMessages ==
    {"UNIQUE constraint failed: users.username",
     "UNIQUE constraint failed: users.email",
     "UNIQUE constraint failed: posts.slug",
     "UNIQUE constraint failed: categories.name",
     "UNIQUE constraint failed: categories.slug",
     "UNIQUE constraint failed: post_categories.post_id, post_categories.category_id",
     "FOREIGN KEY constraint failed"}

C16_Shape ==
    /\ \A p \in {1} : IF pc[p] = "done" THEN UniformResponse(resp[p])
                                        ELSE resp[p] = NoResponse
    /\ \A m \in DriverMessages : UniformResponse(fetchCatch(m))

\* a response, once given, is the one the request gets
C16_Once ==
    [][\A p \in {1} : pc[p] = "done" =>
            \/ pc'[p] = "idle"
            \/ pc'[p] = "done" /\ resp'[p] = resp[p]]_vars

C16_Answered == \A p \in {1} : pc[p] # "idle" ~> pc[p] = "done"

C16_OneUniformResponse == []C16_Shape /\ C16_Once /\ C16_Answered

\* a 500 of a controller has been given
C16_Witness == \E p \in {1} : pc[p] = "done" /\ resp[p].status = 500

(***************************************************************************)
(* C17.  No response carries the text of a driver error: the errors list   *)
(* of a 409 or 500 response never contains the message of an exception     *)
(* thrown by the database driver.                                          *)
(***************************************************************************)
C17_NoDriverText ==
    \A p \in {1} :
        (pc[p] = "done" /\ resp[p].status \in {409, 500} /\ Has(resp[p].errors))
        => \A i \in DOMAIN Val(resp[p].errors) :
               Val(resp[p].errors)[i] \notin DriverMessages

(***************************************************************************)
(* C18.  A controller authenticates, authorizes, validates, checks         *)
(* uniqueness and existence, then mutates, and the first failing step      *)
(* fixes the status: a PATCH /posts/:id of an existing post by an editor   *)
(* who is not its author is answered 403, whether or not the body passes   *)
(* the schema.                                                             *)
(***************************************************************************)
C18_ForbiddenBeforeValidation ==
    \A p \in {1} :
        (/\ Done(p, "PATCH /posts/:id")
         /\ Has(ctx[p].user)
         /\ Val(ctx[p].user).role = "editor"
         /\ \E q \in pre[p].posts : q.id = ctx[p].id /\ q.authorId # Val(ctx[p].user).id)
        => resp[p].status = 403

(***************************************************************************)
(* C19.  Each post has exactly one author, who is an existing user and is  *)
(* the authenticated caller of the createPost that made the post, and no   *)
(* later request changes it, a PATCH whose body has an authorId or an id   *)
(* key included.                                                           *)
(***************************************************************************)
C19_AuthorExists ==
    /\ \A q, r \in posts : q.id = r.id => q = r
    /\ \A q \in posts : \E u \in users : u.id = q.authorId

\* a row with a new id is the row of a createPost, whose token names the author
C19_AuthorIsCaller ==
    \A q \in posts' :
        (~\E r \in posts : r.id = q.id)
        => \E p \in Procs :
              /\ ctx[p].route = "POST /posts"
              /\ Has(TokenOf(ctx[p].header))
              /\ Val(TokenOf(ctx[p].header)).userId = q.authorId

C19_AuthorKept ==
    \A q \in posts : \A r \in posts' : r.id = q.id => r.authorId = q.authorId

C19_AuthorFixed ==
    []C19_AuthorExists /\ [][C19_AuthorIsCaller /\ C19_AuthorKept]_vars

\* a PATCH that names another author and another id has updated the post
C19_Witness ==
    \E p \in Procs :
        /\ Done(p, "PATCH /posts/:id")
        /\ resp[p].status = 200
        /\ Has(ctx[p].body.authorId) /\ Has(ctx[p].body.id)
        /\ \E q \in posts : /\ q.id = ctx[p].id
                            /\ q.authorId # Val(ctx[p].body.authorId)
                            /\ q.id # Val(ctx[p].body.id)
                            /\ q.title = "Edited"

(***************************************************************************)
(* C20.  changePassword replaces the caller's stored hash only when        *)
(* currentPassword verifies against it and newPassword has at least 6      *)
(* characters; after a success login with the new password succeeds and    *)
(* login with the old password returns 401; with a wrong currentPassword   *)
(* it returns 401 and the stored hash is unchanged.                        *)
(***************************************************************************)
LoginWith(username, password) ==
    loginOutcome([username |-> Some(username), password |-> Some(password)])

\* the caller's row of users when the request arrived
CallerBefore(p) == {u \in pre[p].users : u.id = Val(ctx[p].user).id}

CurrentVerifies(p) ==
    /\ Has(ctx[p].body.currentPassword)
    /\ \A u \in CallerBefore(p) :
          verifyPassword(Val(ctx[p].body.currentPassword), u.password)

\* sameToo: the old password is to be refused even when the new one equals it
C20_ChangePassword(p, sameToo) ==
    (Done(p, "POST /profile/change-password") /\ Has(ctx[p].user))
    => /\ users # pre[p].users
            => /\ resp[p].status = 200
               /\ CurrentVerifies(p)
               /\ Len(Val(ctx[p].body.newPassword)) >= 6
       /\ resp[p].status = 200
            => \A u \in CallerBefore(p) :
                  /\ LoginWith(u.username, Val(ctx[p].body.newPassword)).status = 200
                  /\ (sameToo \/ ctx[p].body.currentPassword # ctx[p].body.newPassword)
                        => LoginWith(u.username, Val(ctx[p].body.currentPassword)).status = 401
       /\ (changePasswordSchema(ctx[p].body) = <<>> /\ ~CurrentVerifies(p))
            => resp[p].status = 401 /\ users = pre[p].users

\* the claim as it stands: the old password is refused after every success
C20_OldPasswordRefused == \A p \in {1} : C20_ChangePassword(p, TRUE)

\* the old password is refused when the new one differs from it
C20_OldPasswordReplaced == \A p \in {1} : C20_ChangePassword(p, FALSE)

\* alice has changed her password to another one
C20_Witness ==
    \E p \in {1} :
        /\ Done(p, "POST /profile/change-password")
        /\ resp[p].status = 200
        /\ ctx[p].body.newPassword # ctx[p].body.currentPassword
        /\ users # pre[p].users

(***************************************************************************)
(* C21.  login returns a token only when the username exists and the       *)
(* password verifies against that user's hash; a wrong password for an     *)
(* existing user and any password for an unknown username get the same     *)
(* response, 401 'Invalid username or password'.                           *)
(***************************************************************************)
\* a body that passes loginSchema and names no user, or not the user's password
BadCredentials(body) ==
    /\ loginSchema(body) = <<>>
    /\ ~\E u \in users : /\ u.username = Val(body.username)
                         /\ verifyPassword(Val(body.password), u.password)

UnknownUser(body) == ~\E u \in users : u.username = Val(body.username)

C21_LoginUniform ==
    \A p \in {1} :
        Done(p, "POST /auth/login")
        => /\ resp[p].status = 200 <=> (loginSchema(ctx[p].body) = <<>> /\ ~BadCredentials(ctx[p].body))
           /\ resp[p].status # 200 => ~Has(resp[p].data)
           /\ BadCredentials(ctx[p].body)
                => /\ resp[p].status = 401
                   /\ resp[p].message = Some("Invalid username or password")
                   /\ \A b \in LoginBodies : BadCredentials(b) => loginOutcome(b) = resp[p]

\* a wrong password for a stored user was refused while another username is unknown
C21_Witness ==
    \E p \in {1} :
        /\ Done(p, "POST /auth/login")
        /\ resp[p].status = 401
        /\ ~UnknownUser(ctx[p].body)
        /\ \E b \in LoginBodies : loginSchema(b) = <<>> /\ UnknownUser(b)

(***************************************************************************)
(* C22.  No response of any endpoint contains a user's password or         *)
(* password hash.                                                          *)
(***************************************************************************)
\* the user objects a response shows: the registered or logged-in user, the
\* claims of the token, the profile, the author of a post
UsersShown(r, route) ==
    IF ~r.success THEN {}
    ELSE IF route \in {"POST /auth/register", "GET /profile"} THEN {Val(r.data)}
    ELSE IF route = "POST /auth/login"
    THEN {Val(r.data).user, Val(r.data).token.payload}
    ELSE IF route \in {"POST /posts", "GET /posts/:id", "PATCH /posts/:id"}
    THEN LET post == Val(r.data).post
         IN  IF Has(post) /\ Has(Val(post).author) THEN {Val(Val(post).author)} ELSE {}
    ELSE IF route = "GET /posts"
    THEN {Val(r.data[i].author) : i \in {j \in DOMAIN r.data : Has(r.data[j].author)}}
    ELSE {}

\* the strings of a response: its message and its errors
TextsOf(r) ==
    (IF Has(r.message) THEN {Val(r.message)} ELSE {})
    \cup (IF Has(r.errors) THEN Range(Val(r.errors)) ELSE {})

C22_NoPasswordInResponse ==
    \A p \in {1} :
        pc[p] = "done"
        => /\ \A v \in UsersShown(resp[p], ctx[p].route) : "password" \notin DOMAIN v
           /\ \A u \in users : u.password.of \notin TextsOf(resp[p])

\* a logged-in user, or the author of a post, has been shown
C22_Witness ==
    \E p \in {1} :
        /\ pc[p] = "done"
        /\ ctx[p].route \in {"POST /auth/login", "GET /posts/:id", "GET /posts"}
        /\ UsersShown(resp[p], ctx[p].route) # {}

(***************************************************************************)
(* C23.  A successful PATCH of a post or of a category changes only the    *)
(* fields present in the body; every omitted field keeps its value, for a  *)
(* post status and contentType included: a published post stays published *)
(* and an html post stays html when only the title is patched.             *)
(***************************************************************************)
\* row r is row q but for the fields the body has
KeepsOmitted(q, r, body, fields) ==
    /\ r.id = q.id
    /\ \A f \in DOMAIN q \ fields : r[f] = q[f]
    /\ \A f \in fields : ~Has(body[f]) => r[f] = q[f]

ListedIds(r) == {r.data[i].id : i \in DOMAIN r.data}

C24_CategoryFilter ==
    \A p \in {1} :
        (/\ Done(p, "GET /posts")
         /\ Has(ctx[p].body.category)
         /\ resp[p].status = 200)
        => LET matching == {q.id : q \in Matching(ctx[p].body, pre[p])}
           IN  /\ ListedIds(resp[p]) \subseteq matching
               /\ Cardinality(ListedIds(resp[p])) = Len(resp[p].data)
               /\ Val(resp[p].pagination).total = Cardinality(matching)
               /\ (PageOf(ctx[p].body) = 1 /\ LimitOf(ctx[p].body) >= Cardinality(matching))
                     => ListedIds(resp[p]) = matching
               /\ (~\E r \in pre[p].postCategories : r.categoryId = Val(ctx[p].body.category))
                     => resp[p].data = <<>> /\ Val(resp[p].pagination).total = 0

\* a category that does not exist filters a store of posts down to nothing
C24_Witness ==
    \E p \in {1} :
        /\ Done(p, "GET /posts")
        /\ ctx[p].body.category = Some(2)
        /\ ~Has(ctx[p].body.status)
        /\ resp[p].status = 200
        /\ resp[p].data = <<>>
        /\ posts # {}
        /\ ~\E c \in categories : c.id = 2

(***************************************************************************)
(* C25.  When two updatePost requests on one post, with category lists A   *)
(* and B, are processed concurrently and both succeed, the post's          *)
(* PostCategory rows are those of A or those of B, never a mixture, and    *)
(* each response reports the list its own request wrote.                   *)
(***************************************************************************)
\* the rows that updatePost writes for the categoryIds of slot p
RowsWritten(p) ==
    {[postId |-> ctx[p].id, categoryId |-> Val(ctx[p].body.categoryIds)[i]] :
        i \in DOMAIN Val(ctx[p].body.categoryIds)}

UpdatedCategories(p) ==
    /\ Done(p, "PATCH /posts/:id")
    /\ resp[p].status = 200
    /\ Has(ctx[p].body.categoryIds)

C25_OneListWins ==
    (UpdatedCategories(1) /\ UpdatedCategories(2) /\ ctx[1].id = ctx[2].id)
    => /\ RowsOfPost(postCategories, ctx[1].id) \in {RowsWritten(1), RowsWritten(2)}
       /\ \A p \in Procs :
             {c.categoryId : c \in Val(resp[p].data).categories}
                = {r.categoryId : r \in RowsWritten(p)}

(***************************************************************************)
(* C26.  When updatePost returns a non-success status, the post row and    *)
(* its PostCategory rows are exactly as they were before the request, also *)
(* for a body whose categoryIds repeats an id or names an id of no         *)
(* category.                                                               *)
(***************************************************************************)
C26_FailedUpdateChangesNothing ==
    \A p \in {1} :
        (Done(p, "PATCH /posts/:id") /\ ~resp[p].success)
        => /\ posts = pre[p].posts
           /\ postCategories = pre[p].postCategories

(***************************************************************************)
(* C27.  updatePost, like createPost, associates a post only with          *)
(* categories that exist: a request whose categoryIds names an id absent   *)
(* from table categories is rejected and creates no PostCategory row for   *)
(* it, so sequential requests never leave a PostCategory row without its   *)
(* category.                                                               *)
(***************************************************************************)
NamesAbsentCategory(p) ==
    /\ Has(ctx[p].body.categoryIds)
    /\ \E i \in DOMAIN Val(ctx[p].body.categoryIds) :
          ~\E c \in pre[p].categories : c.id = Val(ctx[p].body.categoryIds)[i]

C27_OnlyExistingCategories ==
    /\ \A p \in {1} :
          (/\ pc[p] = "done"
           /\ ctx[p].route \in {"POST /posts", "PATCH /posts/:id"}
           /\ NamesAbsentCategory(p))
          => ~resp[p].success
    /\ \A r \in postCategories : \E c \in categories : c.id = r.categoryId

(***************************************************************************)
(* C28.  When two createPost requests, or two createCategory requests,     *)
(* with one slug are processed concurrently, at most one row with that     *)
(* slug is stored, exactly one of them returns 201 and the other returns   *)
(* 409.                                                                    *)
(***************************************************************************)
\* both slots have answered a creation of route with one slug, and each
\* arrived before a row with that slug was stored
RacedForSlug(route, rowsOf(_)) ==
    /\ Done(1, route) /\ Done(2, route)
    /\ ctx[1].body.slug = ctx[2].body.slug
    /\ \A p \in Procs :
          /\ Has(ctx[p].user)
          /\ ~\E q \in rowsOf(pre[p]) : q.slug = Val(ctx[p].body.slug)

PostsOf(t) == t.posts
CategoriesOf(t) == t.categories

OneWinsOtherConflicts(rows) ==
    /\ Cardinality({q \in rows : q.slug = Val(ctx[1].body.slug)}) <= 1
    /\ {resp[1].status, resp[2].status} = {201, 409}

C28_SlugRace ==
    /\ RacedForSlug("POST /posts", PostsOf) => OneWinsOtherConflicts(posts)
    /\ RacedForSlug("POST /categories", CategoriesOf) => OneWinsOtherConflicts(categories)

(***************************************************************************)
(* C29.  changePassword does not revoke sessions: a token issued before a  *)
(* successful password change is still accepted by authMiddleware on every *)
(* protected route, because acceptance depends on the token's signature    *)
(* and expiry and never on the stored user row.                            *)
(***************************************************************************)
\* the token login issued for the row u of a user
IssuedFor(u) == Bearer(generateToken(PayloadOf(u)))

Accepted(route, header, u) ==
    LET mw == Middleware(route, header)
    IN  /\ Has(mw.response) => Val(mw.response).status # 401
        /\ Has(mw.user) /\ Val(mw.user).id = u.id

C29_TokenSurvivesChange ==
    \A p \in {1} :
        (/\ Done(p, "POST /profile/change-password")
         /\ resp[p].status = 200)
        => \A u \in pre[p].users :
              u.id = Val(ctx[p].user).id
              => /\ ctx[p].header = IssuedFor(u)
                 /\ \A route \in ProtectedRoutes : Accepted(route, IssuedFor(u), u)
                 /\ LET expired == [IssuedFor(u) EXCEPT !.rest = Some([Val(@) EXCEPT !.live = FALSE])]
                    IN  \A route \in ProtectedRoutes :
                           Val(Middleware(route, expired).response).status = 401

\* the password was replaced by another one
C29_Witness ==
    \E p \in {1} :
        /\ Done(p, "POST /profile/change-password")
        /\ resp[p].status = 200
        /\ \E u \in pre[p].users : \E v \in users :
              u.id = Val(ctx[p].user).id /\ v.id = u.id /\ v.password # u.password

(***************************************************************************)
(* C30.  Under every interleaving of createPost, updatePost and deletePost *)
(* every PostCategory row references a post that exists: a deletePost      *)
(* racing with an updatePost that carries categoryIds for the same post    *)
(* leaves no PostCategory row of the deleted post once both have           *)
(* completed.                                                              *)
(***************************************************************************)
Quiescent == \A p \in Procs : pc[p] \in {"idle", "done"}

C30_NoRowOfDeletedPost ==
    Quiescent => \A r \in postCategories : \E q \in posts : q.id = r.postId

====
